---- MODULE Spec2Model ----
(***************************************************************************)
(* A model of SDTGEN: the table packer (tools/packtables.c), the table     *)
(* formatter (tools/tableformat.c), the runtime scanner/parser driver      *)
(* (lib/parser.c) and the LALR(1) generator (src/symbols.c).               *)
(*                                                                         *)
(* C arrays are modelled as functions over 0..n-1 so that the index        *)
(* arithmetic of the source is kept as written.                            *)
(***************************************************************************)
EXTENDS Integers, Sequences, FiniteSets, TLC

(***************************************************************************)
(* Program constants                                                       *)
(***************************************************************************)
SHIFT_OFFSET == 10000
ACCEPT_OFFSET == -10000
MAXCOST == 99999

(***************************************************************************)
(* Bounds of the packer model                                              *)
(***************************************************************************)
\* number of parser states in the tables file (pnumber)
MaxPStates == 3
\* number of terminals plus nonterminals in the tables file (tnumber + ntnumber)
MaxPTokens == 3
\* number of scanner states in the tables file (snumber)
MaxSStates == 3
\* number of input symbols of the scanner model, standing for MAPCOUNT
\* (every byte value and end of file, 257) of include/utility_functions.h
MaxMapCount == 2

VARIABLES
    pk_pc,      \* position of packtables' main: which loop it is in
    actions,    \* int **actions: the uncompressed table read from the file
    count,      \* int *count: number of actions of each parser state
    index,      \* int *index: state numbers in insertion order
    pk_i,       \* the loop variable i of main
    tdefault,   \* int *tdefault
    tbase,      \* int *tbase
    tcheck,     \* dynarray tcheck: the array, DYNSIZE cells
    tnext,      \* dynarray tnext
    tcount,     \* DYNCOUNT(tcheck) = DYNCOUNT(tnext)
    tsize,      \* DYNSIZE(tcheck) = DYNSIZE(tnext)
    chain       \* int *chain: length of each state's default chain

pkvars == <<pk_pc, actions, count, index, pk_i, tdefault, tbase, tcheck, tnext,
            tcount, tsize, chain>>

(***************************************************************************)
(* State of the LALR(1) generator (src/symbols.c, sdtgen.c)                *)
(***************************************************************************)
VARIABLES
    gen_pc,       \* position of main / generate_parser
    grammar,      \* the terminals and their attributes (termtable)
    options,      \* tables->options
    semerrors,    \* kinds of error the semantic routines recorded
    productions,  \* tables->productions, entries 1..PRODCOUNT-1
    collection,   \* tables->collection, entries 1..COLLCOUNT-1
    first,        \* tables->first
    lrstates,     \* tables->lrstates
    gen_i,        \* the loop variable i of generate_parser and build_table
    process,      \* tables->process
    stderr,       \* the conflict reports written to stderr
    errortoken,   \* tables->errortoken
    written,      \* whether write_tables has written the tables file
    exitcode      \* the argument of exit, -1 until sdtgen exits

genvars == <<gen_pc, grammar, options, semerrors, productions, collection,
             first, lrstates, gen_i, process, stderr, errortoken, written,
             exitcode>>

(***************************************************************************)
(* State of the runtime scanner/parser driver (lib/parser.c)               *)
(***************************************************************************)
VARIABLES
    drv_pc,       \* position of the caller: init_parser, parse_input, exit
    ptables,      \* the generated tables of sdt_tables (Pbase, Pnext, ...)
    infile,       \* the input file behind tables->inputfd
    tables,       \* the scanner and parser data of sdt_tables
    parse         \* the local variables of parse_input

drvvars == <<drv_pc, ptables, infile, tables, parse>>

(***************************************************************************)
(* Ordered sets (src/intset.c and the symbolsets of src/symbols.c)         *)
(***************************************************************************)
VARIABLES
    setkind,      \* which sets the caller works with: "intset", "symbolset"
    sets          \* the sets of the caller: array (allocated or NULL) and
                  \* the elements 0..count-1

setvars == <<setkind, sets>>

vars == <<pkvars, genvars, drvvars, setvars>>

\* the variables the table packer does not touch
nonpkvars == <<genvars, drvvars, setvars>>

\* the variables the generator does not touch
nongenvars == <<pkvars, drvvars, setvars>>

\* the variables the driver does not touch
nondrvvars == <<pkvars, genvars, setvars>>

\* the variables the ordered sets do not touch
nonsetvars == <<pkvars, genvars, drvvars>>

\* the packer is not running
PkIdle ==
    /\ pk_pc = "idle"
    /\ actions = <<>> /\ count = <<>> /\ index = <<>> /\ pk_i = 0
    /\ tdefault = <<>> /\ tbase = <<>> /\ tcheck = <<>> /\ tnext = <<>>
    /\ tcount = 0 /\ tsize = 0 /\ chain = <<>>

\* the generator is not running
GenIdle ==
    /\ gen_pc = "idle"
    /\ grammar = <<>> /\ options = {} /\ semerrors = {} /\ productions = <<>>
    /\ collection = <<>> /\ first = <<>> /\ lrstates = <<>> /\ gen_i = 0
    /\ process = TRUE /\ stderr = <<>> /\ errortoken = <<>> /\ written = FALSE
    /\ exitcode = -1

\* the driver is not running
DrvIdle ==
    /\ drv_pc = "idle"
    /\ ptables = <<>> /\ infile = <<>> /\ tables = <<>> /\ parse = <<>>

\* no ordered sets are in use
SetIdle == setkind = "idle" /\ sets = <<>>

(***************************************************************************)
(* Helpers on C arrays                                                     *)
(***************************************************************************)
ZeroArray(n) == [i \in 0..(n - 1) |-> 0]

\* dynresize followed by memset of the added half, repeated while
\* DYNCOUNT + need > DYNSIZE: the size the array ends with
RECURSIVE GrowSize(_, _)
GrowSize(size, need) ==
    IF need > size THEN GrowSize(size * 2, need) ELSE size

\* the array after the growth: old cells kept, added cells zero
Grown(arr, size, newsize) ==
    [i \in 0..(newsize - 1) |-> IF i < size THEN arr[i] ELSE 0]

(***************************************************************************)
(* packtables: the parser tables                                           *)
(***************************************************************************)
\* The entry sdtgen writes for a nonzero action of state s (0-based) on
\* token j (0-based): shifts, shiftreduces and reduces all occur
ActionCode(s, j) ==
    LET n == s * MaxPTokens + j + 1
    IN  CASE n % 3 = 0 -> SHIFT_OFFSET + n
          [] n % 3 = 1 -> -n
          [] OTHER     -> n

\* the uncompressed tables load_actions can read: each cell is zero (no
\* action listed for the token) or the listed action
ActionTables ==
    { [s \in 0..(MaxPStates - 1) |->
          [j \in 0..(MaxPTokens - 1) |->
              IF present[s][j] THEN ActionCode(s, j) ELSE 0]] :
      present \in [0..(MaxPStates - 1) -> [0..(MaxPTokens - 1) -> BOOLEAN]] }

\* load_actions: count[i] is the number of (token, action) pairs of the row
CountOf(act, s) == Cardinality({j \in 0..(MaxPTokens - 1) : act[s][j] # 0})

\* sort_parser's inner loop: insert save before every entry with fewer actions
RECURSIVE InsertByCount(_, _, _)
InsertByCount(pre, save, cnt) ==
    IF pre = <<>> \/ ~(cnt[pre[Len(pre)]] < cnt[save])
    THEN Append(pre, save)
    ELSE Append(InsertByCount(SubSeq(pre, 1, Len(pre) - 1), save, cnt),
                pre[Len(pre)])

RECURSIVE SortParserFrom(_, _, _)
SortParserFrom(idx, i, cnt) ==
    IF i > Len(idx) THEN idx
    ELSE SortParserFrom(
             InsertByCount(SubSeq(idx, 1, i - 1), idx[i], cnt)
                 \o SubSeq(idx, i + 1, Len(idx)),
             i + 1, cnt)

\* sort_parser: the states by descending number of actions (stable);
\* the result is the C array index[0..states-1]
sort_parser(cnt, states) ==
    LET sorted == SortParserFrom([i \in 1..states |-> i - 1], 2, cnt)
    IN  [i \in 0..(states - 1) |-> sorted[i + 1]]

\* compress_parser's test of one insertion point i: every nonzero action
\* of the row finds a free cell
FitsParserMissLast(row, chk, i, tokens) ==
    \A j \in 0..(tokens - 2) : row[j] = 0 \/ chk[i + j] = 0

FitsParser(row, chk, i, tokens) ==
    \A j \in 0..(tokens - 1) : row[j] = 0 \/ chk[i + j] = 0

\* compress_parser's search loop: the first i below DYNCOUNT that fits,
\* DYNCOUNT when there is none
RECURSIVE FindParserFit(_, _, _, _, _)
FindParserFit(row, chk, cnt, tokens, i) ==
    IF i >= cnt THEN i
    ELSE IF FitsParser(row, chk, i, tokens) THEN i
    ELSE FindParserFit(row, chk, cnt, tokens, i + 1)

\* one call of compress_parser from main's loop
compress_parser ==
    /\ pk_pc = "compress_parser"
    /\ pk_i < MaxPStates
    /\ LET state   == index[pk_i]
           tokens  == MaxPTokens
           newsize == GrowSize(tsize, tcount + tokens)
       IN  \E chk \in {Grown(tcheck, tsize, newsize)} :
           \E nxt \in {Grown(tnext, tsize, newsize)} :
           \E i \in {FindParserFit(actions[state], chk, tcount, tokens, 0)} :
              /\ tsize' = newsize
              /\ tbase' = [tbase EXCEPT ![state] = i]
              /\ tcheck' = [c \in 0..(newsize - 1) |->
                               IF c - i \in 0..(tokens - 1) /\ actions[state][c - i] # 0
                               THEN state + 1 ELSE chk[c]]
              /\ tnext' = [c \in 0..(newsize - 1) |->
                               IF c - i \in 0..(tokens - 1) /\ actions[state][c - i] # 0
                               THEN actions[state][c - i] ELSE nxt[c]]
              /\ tcount' = IF tcount < i + tokens THEN i + tokens ELSE tcount
    /\ pk_i' = pk_i + 1
    /\ UNCHANGED <<pk_pc, actions, count, index, tdefault, chain>>
    /\ UNCHANGED nonpkvars

\* main: load_actions has read the table; sort the states and allocate
\* the zeroed compressed tables
sort_parser_step ==
    /\ pk_pc = "load_actions"
    /\ index' = sort_parser(count, MaxPStates)
    /\ tbase' = ZeroArray(MaxPStates)
    /\ tcheck' = ZeroArray(MaxPTokens)
    /\ tnext' = ZeroArray(MaxPTokens)
    /\ tcount' = 0
    /\ tsize' = MaxPTokens
    /\ pk_i' = 0
    /\ pk_pc' = "compress_parser"
    /\ UNCHANGED <<actions, count, tdefault, chain>>
    /\ UNCHANGED nonpkvars

\* main: the loop over the states is over; write_table writes the first
\* DYNCOUNT cells of tcheck and tnext
write_parser_tables ==
    /\ pk_pc = "compress_parser"
    /\ pk_i = MaxPStates
    /\ pk_pc' = "parser_written"
    /\ tcheck' = [c \in 0..(tcount - 1) |-> tcheck[c]]
    /\ tnext' = [c \in 0..(tcount - 1) |-> tnext[c]]
    /\ UNCHANGED <<actions, count, index, pk_i, tdefault, tbase, tcount, tsize, chain>>
    /\ UNCHANGED nonpkvars

InitPackParser ==
    /\ pk_pc = "load_actions"
    /\ actions \in ActionTables
    /\ count = [s \in 0..(MaxPStates - 1) |-> CountOf(actions, s)]
    /\ index = <<>>
    /\ pk_i = 0
    /\ tdefault = <<>>
    /\ tbase = <<>>
    /\ tcheck = <<>>
    /\ tnext = <<>>
    /\ tcount = 0
    /\ tsize = 0
    /\ chain = <<>>
    /\ GenIdle
    /\ DrvIdle
    /\ SetIdle

NextPackParser == sort_parser_step \/ compress_parser \/ write_parser_tables

SpecPackParser == InitPackParser /\ [][NextPackParser]_vars

(***************************************************************************)
(* packtables: the scanner tables                                          *)
(***************************************************************************)
\* The next state load_transitions reads for a transition on symbol ch
TransCode(ch) == 1 + (ch % MaxSStates)

\* the uncompressed transition tables load_transitions can read: each cell
\* is zero (no transition on the symbol) or the next state
TransTables ==
    { [s \in 0..(MaxSStates - 1) |->
          [ch \in 0..(MaxMapCount - 1) |->
              IF present[s][ch] THEN TransCode(ch) ELSE 0]] :
      present \in [0..(MaxSStates - 1) -> [0..(MaxMapCount - 1) -> BOOLEAN]] }

\* state_mismatch: the number of symbols on which two states differ
state_mismatch(act, state1, state2) ==
    IF state1 = state2 THEN 0
    ELSE Cardinality({ch \in 0..(MaxMapCount - 1) : act[state1][ch] # act[state2][ch]})

\* compare_scanner: the matrix of mismatches
compare_scanner(act) ==
    [i \in 0..(MaxSStates - 1) |->
        [j \in 0..(MaxSStates - 1) |-> state_mismatch(act, i, j)]]

\* compute_average and sort_scanner order the states by a distance weighted
\* mean computed in double arithmetic, which divides by zero (giving
\* infinities and NaNs that compare false) whenever a state is equally far
\* from all others.  The model keeps every order the sort can leave: index
\* is some permutation of the states.
ScannerOrders ==
    { idx \in [0..(MaxSStates - 1) -> 0..(MaxSStates - 1)] :
        \A a, b \in 0..(MaxSStates - 1) : a # b => idx[a] # idx[b] }

\* the contents malloc can leave in the cells dynalloc allocates
MallocValues == {0, 1}

\* insert_scanner: the first state is inserted whole, with default state 0
insert_scanner ==
    /\ pk_pc = "insert_scanner"
    /\ LET idx == index[0]
       IN  /\ tdefault' = [tdefault EXCEPT ![idx] = 0]
           /\ chain' = [ZeroArray(MaxSStates) EXCEPT ![idx] = 1]
           /\ tbase' = [tbase EXCEPT ![idx] = tcount]
           /\ \E newsize \in {IF tcount + MaxMapCount > tsize THEN tsize * 2 ELSE tsize} :
              \E chk \in {Grown(tcheck, tsize, newsize)} :
              \E nxt \in {Grown(tnext, tsize, newsize)} :
                 /\ tsize' = newsize
                 /\ tcheck' = [c \in 0..(newsize - 1) |->
                                  IF c - tcount \in 0..(MaxMapCount - 1)
                                  THEN idx + 1 ELSE chk[c]]
                 /\ tnext' = [c \in 0..(newsize - 1) |->
                                 IF c - tcount \in 0..(MaxMapCount - 1)
                                 THEN actions[idx][c - tcount] ELSE nxt[c]]
           /\ tcount' = tcount + MaxMapCount
    /\ pk_i' = 1
    /\ pk_pc' = "compress_scanner"
    /\ UNCHANGED <<actions, count, index>>
    /\ UNCHANGED nonpkvars

\* compress_scanner's first loop: the first previously inserted state with
\* the fewest mismatches
RECURSIVE MostSimilar(_, _, _, _, _, _)
MostSimilar(cmp, idx, entry, i, value, min) ==
    IF i >= entry THEN min
    ELSE IF cmp[idx[entry]][idx[i]] < value
         THEN MostSimilar(cmp, idx, entry, i + 1, cmp[idx[entry]][idx[i]], i)
         ELSE MostSimilar(cmp, idx, entry, i + 1, value, min)

\* compress_scanner: the symbols on which a state differs from its default
ScannerDiffNonzero(act, state, dflt) ==
    [ch \in 0..(MaxMapCount - 1) |->
        act[state][ch] # 0 /\ act[state][ch] # act[dflt][ch]]

ScannerDiff(act, state, dflt) ==
    [ch \in 0..(MaxMapCount - 1) |-> act[state][ch] # act[dflt][ch]]

\* compress_scanner's test of one insertion point i
FitsScanner(diff, chk, i) ==
    \A j \in 0..(MaxMapCount - 1) : ~diff[j] \/ chk[i + j] = 0

\* compress_scanner's search loop
RECURSIVE FindScannerFit(_, _, _, _)
FindScannerFit(diff, chk, cnt, i) ==
    IF i >= cnt THEN i
    ELSE IF FitsScanner(diff, chk, i) THEN i
    ELSE FindScannerFit(diff, chk, cnt, i + 1)

\* one call of compress_scanner from main's loop
compress_scanner ==
    /\ pk_pc = "compress_scanner"
    /\ pk_i < MaxSStates
    /\ LET entry == pk_i
           state == index[entry]
       IN  \E min \in {MostSimilar(compare_scanner(actions), index, entry, 0,
                                   MaxMapCount + 1, 0)} :
           \E diff \in {ScannerDiff(actions, state, index[min])} :
           \E newsize \in {GrowSize(tsize, tcount + MaxMapCount)} :
           \E chk \in {Grown(tcheck, tsize, newsize)} :
           \E nxt \in {Grown(tnext, tsize, newsize)} :
           \E i \in {FindScannerFit(diff, chk, tcount, 0)} :
              /\ tdefault' = [tdefault EXCEPT ![state] = index[min] + 1]
              /\ chain' = [chain EXCEPT ![state] = chain[index[min]] + 1]
              /\ tsize' = newsize
              /\ tbase' = [tbase EXCEPT ![state] = i]
              /\ tcheck' = [c \in 0..(newsize - 1) |->
                               IF c - i \in 0..(MaxMapCount - 1) /\ diff[c - i]
                               THEN state + 1 ELSE chk[c]]
              /\ tnext' = [c \in 0..(newsize - 1) |->
                              IF c - i \in 0..(MaxMapCount - 1) /\ diff[c - i]
                              THEN actions[state][c - i] ELSE nxt[c]]
              /\ tcount' = IF tcount < i + MaxMapCount THEN i + MaxMapCount ELSE tcount
    /\ pk_i' = pk_i + 1
    /\ UNCHANGED <<pk_pc, actions, count, index>>
    /\ UNCHANGED nonpkvars

\* complete_scanner's sort: insert save before every entry with a shorter chain
RECURSIVE InsertByChain(_, _, _)
InsertByChain(pre, save, chn) ==
    IF pre = <<>> \/ ~(chn[pre[Len(pre)]] < chn[save])
    THEN Append(pre, save)
    ELSE Append(InsertByChain(SubSeq(pre, 1, Len(pre) - 1), save, chn),
                pre[Len(pre)])

RECURSIVE SortByChainFrom(_, _, _)
SortByChainFrom(idx, i, chn) ==
    IF i > Len(idx) THEN idx
    ELSE SortByChainFrom(
             InsertByChain(SubSeq(idx, 1, i - 1), idx[i], chn)
                 \o SubSeq(idx, i + 1, Len(idx)),
             i + 1, chn)

\* complete_scanner's fill loop over the sorted states idx[i..], symbol by
\* symbol: a cell whose check value is 0 is given to the state.  The result
\* is the pair of arrays <<tcheck, tnext>>
RECURSIVE FillUnused(_, _, _, _, _, _)
FillUnused(act, base, idx, i, j, tabs) ==
    IF i > Len(idx) THEN tabs
    ELSE IF j >= MaxMapCount THEN FillUnused(act, base, idx, i + 1, 0, tabs)
    ELSE LET state == idx[i]
             c     == base[state] + j
         IN  IF tabs[1][c] = 0
             THEN FillUnused(act, base, idx, i, j + 1,
                             <<[tabs[1] EXCEPT ![c] = state + 1],
                               [tabs[2] EXCEPT ![c] = act[state][j]]>>)
             ELSE FillUnused(act, base, idx, i, j + 1, tabs)

\* complete_scanner, then main's write_table of the first DYNCOUNT cells
complete_scanner ==
    /\ pk_pc = "compress_scanner"
    /\ pk_i = MaxSStates
    /\ \E sorted \in {SortByChainFrom([i \in 1..MaxSStates |-> i - 1], 2, chain)} :
       \E tabs \in {FillUnused(actions, tbase, sorted, 1, 0, <<tcheck, tnext>>)} :
          /\ tcheck' = [c \in 0..(tcount - 1) |-> tabs[1][c]]
          /\ tnext' = [c \in 0..(tcount - 1) |-> tabs[2][c]]
    /\ pk_pc' = "scanner_written"
    /\ UNCHANGED <<actions, count, index, pk_i, tdefault, tbase, tcount, tsize, chain>>
    /\ UNCHANGED nonpkvars

\* main: load_transitions has read the table; the order of insertion is
\* computed and the tables are allocated (tcheck and tnext are not cleared)
InitPackScanner ==
    /\ pk_pc = "insert_scanner"
    /\ actions \in TransTables
    /\ count = <<>>
    /\ index \in ScannerOrders
    /\ pk_i = 0
    /\ tdefault = ZeroArray(MaxSStates)
    /\ tbase = ZeroArray(MaxSStates)
    /\ \E g \in MallocValues :
          /\ tcheck = [c \in 0..(MaxMapCount - 1) |-> g]
          /\ tnext = [c \in 0..(MaxMapCount - 1) |-> g]
    /\ tcount = 0
    /\ tsize = MaxMapCount
    /\ chain = <<>>
    /\ GenIdle
    /\ DrvIdle
    /\ SetIdle

NextPackScanner == insert_scanner \/ compress_scanner \/ complete_scanner

SpecPackScanner == InitPackScanner /\ [][NextPackScanner]_vars

(***************************************************************************)
(* tableformat and the driver's table lookup                               *)
(***************************************************************************)
\* tableformat's write_table with base 1 writes a leading 0, so that the
\* C arrays Pbase, Pcheck and Pnext are indexed from 1
Pbase(state) == IF state = 0 THEN 0 ELSE tbase[state - 1]
Pcheck(i) == IF i = 0 THEN 0 ELSE tcheck[i - 1]
Pnext(i) == IF i = 0 THEN 0 ELSE tnext[i - 1]

\* decode_action's lookup: the table entry of a state (from 1) and a token
\* (from 1), 0 (ERROR) when the check value is not the state
DecodeEntry(state, token) ==
    LET i == Pbase(state) + token
    IN  IF Pcheck(i) = state THEN Pnext(i) ELSE 0

\* tableformat writes Sdefault and Sbase with base 1 and Scheck and Snext
\* with base 0
Sdefault(state) == IF state = 0 THEN 0 ELSE tdefault[state - 1]
Sbase(state) == IF state = 0 THEN 0 ELSE tbase[state - 1]

\* input_token's search through the default state chain for a state (from
\* 1) and an input symbol, and the next state it then takes: 0 when the
\* chain ends at default state 0 or the entry found is 0
RECURSIVE ScannerNext(_, _)
ScannerNext(state, ch) ==
    LET i == Sbase(state) + ch
    IN  IF tcheck[i] # state
        THEN IF Sdefault(state) # 0 THEN ScannerNext(Sdefault(state), ch) ELSE 0
        ELSE tnext[i]

\* the number of default states input_token passes through for the lookup
RECURSIVE ScannerProbes(_, _)
ScannerProbes(state, ch) ==
    IF tcheck[Sbase(state) + ch] # state /\ Sdefault(state) # 0
    THEN 1 + ScannerProbes(Sdefault(state), ch)
    ELSE 0

(***************************************************************************)
(* C1                                                                      *)
(***************************************************************************)
\* C1: once the parser tables are packed, for every state s and token t the
\* lookup "entry = pbase[s] + t; if pcheck[entry] = s then pnext[entry] else
\* error" gives the uncompressed actions[s][t]; the check value of the cell
\* is s exactly when the action is not zero
C1_ParserRoundTrip ==
    pk_pc = "parser_written" =>
        \A s \in 1..MaxPStates : \A t \in 1..MaxPTokens :
            /\ DecodeEntry(s, t) = actions[s - 1][t - 1]
            /\ (Pcheck(Pbase(s) + t) = s) <=> (actions[s - 1][t - 1] # 0)

\* two rows are interleaved in the packed table, and a zero cell of one
\* state is taken by an action of another
C1_Witness ==
    /\ pk_pc = "parser_written"
    /\ \E s1, s2 \in 1..MaxPStates : \E t \in 1..MaxPTokens :
          /\ s1 # s2
          /\ Pbase(s1) < Pbase(s2)
          /\ Pbase(s2) < Pbase(s1) + MaxPTokens
          /\ actions[s1 - 1][t - 1] = 0
          /\ Pcheck(Pbase(s1) + t) = s2
          /\ DecodeEntry(s1, t) = 0

(***************************************************************************)
(* C2                                                                      *)
(***************************************************************************)
\* C2: over the final packed scanner tables, for every state s and input
\* symbol b the search through the default state chain gives the next state
\* of the uncompressed transition table, 0 (no transition) included
C2_ScannerRoundTrip ==
    pk_pc = "scanner_written" =>
        \A s \in 1..MaxSStates : \A b \in 0..(MaxMapCount - 1) :
            ScannerNext(s, b) = actions[s - 1][b]

\* a lookup that passes through two default states and ends on a
\* transition, and another that ends on "no transition"
C2_Witness ==
    /\ pk_pc = "scanner_written"
    /\ \E s \in 1..MaxSStates : \E b \in 0..(MaxMapCount - 1) :
          /\ ScannerProbes(s, b) = 2
          /\ ScannerNext(s, b) # 0
    /\ \E s \in 1..MaxSStates : \E b \in 0..(MaxMapCount - 1) :
          /\ ScannerProbes(s, b) >= 1
          /\ ScannerNext(s, b) = 0

(***************************************************************************)
(***************************************************************************)
(* The LALR(1) generator: sdtgen's main, the semantic routine and          *)
(* generate_parser                                                         *)
(***************************************************************************)
(***************************************************************************)

\* options selected in the input file
ERRORREPAIR == 1
DEFAULTREDUCE == 2
AMBIGUOUS == 4
SPLITSTATES == 8

\* associativity flag bits of a token
LEFT == 2
RIGHT == 4
NONE == 8

\* parser state errors
NO_ERROR == 0
SHIFT_REDUCE_ERROR == 1
REDUCE_REDUCE_ERROR == 2

INT_MAX == 2147483647

\* the largest PRECEDENCE an input file of the model declares
MaxPrec == 2

\* DYNCOUNT of an array held as a function over 0..n-1
Len0(f) == Cardinality(DOMAIN f)

\* dyncheck, store at DYNCOUNT, DYNCOUNT++
Append0(f, x) == [i \in 0..Len0(f) |-> IF i < Len0(f) THEN f[i] ELSE x]

\* the array holding the elements of a list
Arr(s) == [i \in 0..(Len(s) - 1) |-> s[i + 1]]

(***************************************************************************)
(* Input files.  A grammar is what the semantic routine has collected when *)
(* parse_input returns: the terminals 1..termcount with their attributes   *)
(* (tokenval defaults: precedence 0, no flags, insert 1), the nonterminals *)
(* termcount+1..termcount+nontermcount numbered by parser_tokens, and the  *)
(* rules of the PARSER section with the augmented <Goal> rule first.       *)
(*   empty     terminals carrying the EMPTY flag                           *)
(*   assoc     flags & ASSOCIATIVITY of each terminal                      *)
(*   declared  terminals whose declaration has a PRECEDENCE attribute      *)
(*   flaws     errors of the SCANNER section the semantic routine reports  *)
(*   scanok    whether init_scangen succeeds on the SCANNER section        *)
(***************************************************************************)
Rule(l, r) == [lhside |-> l, rhside |-> r, semantic |-> 0]

Gram(tc, ntc, emp, rules) ==
    [termcount |-> tc, nontermcount |-> ntc, empty |-> emp,
     assoc |-> [t \in 1..tc |-> 0],
     precedence |-> [t \in 1..tc |-> 0],
     declared |-> {},
     insert |-> [t \in 1..tc |-> IF t = tc THEN (MAXCOST + 1) \div 2 - 1 ELSE 1],
     sentinel |-> tc, goal |-> tc + 1,
     rules |-> rules, flaws |-> {}, scanok |-> TRUE]

\* <S> -> "a" <S> "b" | "" ;          terminals a b "" $
GrammarNest ==
    Gram(4, 2, {3}, << Rule(5, <<6, 4>>), Rule(6, <<1, 6, 2>>), Rule(6, <<3>>) >>)

\* <L> -> <A> "x" | <B> "x" ; <A> -> "a" ; <B> -> "a" ;      terminals x a $
GrammarRR ==
    Gram(3, 4, {}, << Rule(4, <<5, 3>>), Rule(5, <<6, 1>>), Rule(5, <<7, 1>>),
                      Rule(6, <<2>>), Rule(7, <<2>>) >>)

\* <S> -> "a" <A> "d" | "b" <B> "d" | "a" <B> "e" | "b" <A> "e" ;
\* <A> -> "c" ; <B> -> "c" ;                          terminals a b c d e $
GrammarLR1 ==
    Gram(6, 4, {}, << Rule(7, <<8, 6>>), Rule(8, <<1, 9, 4>>), Rule(8, <<2, 10, 4>>),
                      Rule(8, <<1, 10, 5>>), Rule(8, <<2, 9, 5>>),
                      Rule(9, <<3>>), Rule(10, <<3>>) >>)

\* <E> -> <E> "+" <E> | <E> "*" <E> | "id" ;          terminals + * id $
GrammarExpr ==
    Gram(4, 2, {}, << Rule(5, <<6, 4>>), Rule(6, <<6, 1, 6>>), Rule(6, <<6, 2, 6>>),
                      Rule(6, <<3>>) >>)

\* <S> -> "a" <R> | "b" <R2> ; <R> -> <P> "m" | <Q> "n" ;
\* <R2> -> <Q> "m" | <P> "n" ; <P> -> "t" "x" ; <Q> -> "t" "y" ;
\*                                                terminals a b t x y m n $
GrammarOrder ==
    Gram(8, 6, {}, << Rule(9, <<10, 8>>), Rule(10, <<1, 11>>), Rule(10, <<2, 12>>),
                      Rule(11, <<13, 6>>), Rule(11, <<14, 7>>),
                      Rule(12, <<14, 6>>), Rule(12, <<13, 7>>),
                      Rule(13, <<3, 4>>), Rule(14, <<3, 5>>) >>)

\* <S> -> "i" <S> | "i" <S> "e" <S> | "o" ;           terminals e i o $
GrammarElse ==
    Gram(4, 2, {}, << Rule(5, <<6, 4>>), Rule(6, <<2, 6>>), Rule(6, <<2, 6, 1, 6>>),
                      Rule(6, <<3>>) >>)

\* <E> -> <E> <E> | "id" ;                            terminals id $
GrammarJuxta ==
    Gram(2, 2, {}, << Rule(3, <<4, 2>>), Rule(4, <<4, 4>>), Rule(4, <<1>>) >>)

\* <S> -> <T> "b" ; <T> -> "a" | "a" "b" ;            terminals b a $
GrammarTail ==
    Gram(3, 3, {}, << Rule(4, <<5, 3>>), Rule(5, <<6, 1>>), Rule(6, <<2>>),
                      Rule(6, <<2, 1>>) >>)

\* <S> -> "a" <U> ;  with <U> never defined           terminals a $
GrammarUndef ==
    Gram(2, 3, {}, << Rule(3, <<4, 2>>), Rule(4, <<1, 5>>) >>)

\* <S> -> "a" <L> "x" | "b" <M> "y" ; <L> -> "c" <L> | "d" ; <M> -> "e" <L> ;
\*                                                terminals a b c d e x y $
GrammarLoop ==
    Gram(8, 4, {}, << Rule(9, <<10, 8>>), Rule(10, <<1, 11, 6>>), Rule(10, <<2, 12, 7>>),
                      Rule(11, <<3, 11>>), Rule(11, <<4>>), Rule(12, <<5, 11>>) >>)

\* <S> -> "a" <A> "d" | "a" <B> "e" | "b" <A> "e" | "b" <B> "d" ;
\* <A> -> "c" ; <B> -> "c" ;                          terminals a b c d e $
GrammarSplit ==
    Gram(6, 4, {}, << Rule(7, <<8, 6>>), Rule(8, <<1, 9, 4>>), Rule(8, <<1, 10, 5>>),
                      Rule(8, <<2, 9, 5>>), Rule(8, <<2, 10, 4>>),
                      Rule(9, <<3>>), Rule(10, <<3>>) >>)

\* <S> -> <A> "x" | <B> "x" | "a" "x" "y" ; <A> -> "a" ; <B> -> "a" ;
\*                                                terminals x a y $
GrammarMask ==
    Gram(4, 4, {}, << Rule(5, <<6, 4>>), Rule(6, <<7, 1>>), Rule(6, <<8, 1>>),
                      Rule(6, <<2, 1, 3>>), Rule(7, <<2>>), Rule(8, <<2>>) >>)

\* <S> -> "a" <L> "d" | "a" <M> "e" | "b" <L> "e" | "b" <M> "d" ;
\* <L> -> "c" <L> | "x" ; <M> -> "c" <M> | "x" ;     terminals a b c d e x $
GrammarCycle ==
    Gram(7, 4, {}, << Rule(8, <<9, 7>>), Rule(9, <<1, 10, 4>>), Rule(9, <<1, 11, 5>>),
                      Rule(9, <<2, 10, 5>>), Rule(9, <<2, 11, 4>>),
                      Rule(10, <<3, 10>>), Rule(10, <<6>>),
                      Rule(11, <<3, 11>>), Rule(11, <<6>>) >>)

\* <S> -> "a" <A> "d" | "a" <B> "e" | "b" <A> "e" | "b" <B> "d"
\*      | "f" <C> "g" | "f" <D> "h" | "k" <C> "h" | "k" <D> "g"
\*      | <P> "x" | <Q> "x" ;
\* <A> -> "c" ; <B> -> "c" ; <C> -> "n" ; <D> -> "n" ; <P> -> "m" ; <Q> -> "m" ;
\*                                    terminals a b c d e f g h k n x m $
GrammarTwice ==
    Gram(13, 8, {}, << Rule(14, <<15, 13>>),
                       Rule(15, <<1, 16, 4>>), Rule(15, <<1, 17, 5>>),
                       Rule(15, <<2, 16, 5>>), Rule(15, <<2, 17, 4>>),
                       Rule(15, <<6, 18, 7>>), Rule(15, <<6, 19, 8>>),
                       Rule(15, <<9, 18, 8>>), Rule(15, <<9, 19, 7>>),
                       Rule(15, <<20, 11>>), Rule(15, <<21, 11>>),
                       Rule(16, <<3>>), Rule(17, <<3>>), Rule(18, <<10>>),
                       Rule(19, <<10>>), Rule(20, <<12>>), Rule(21, <<12>>) >>)

\* <S> -> "a" <L> "x" | "b" <M> "y" ; <L> -> "c" <S> | "d" ; <M> -> "e" <L> ;
\*                                                terminals a b c d e x y $
GrammarChain ==
    Gram(8, 4, {}, << Rule(9, <<10, 8>>), Rule(10, <<1, 11, 6>>), Rule(10, <<2, 12, 7>>),
                      Rule(11, <<3, 10>>), Rule(11, <<4>>), Rule(12, <<5, 11>>) >>)

\* the precedence and associativity a declaration can give a terminal:
\* no PRECEDENCE attribute leaves tokenval.precedence 0, no ASSOCIATIVITY
\* attribute leaves the flags 0
TokenAttrs ==
    { [declared |-> p > 0, precedence |-> p, assoc |-> a] :
        p \in 0..MaxPrec, a \in {0, LEFT, RIGHT, NONE} }

\* the grammar g with terminals 1 and 2 declared with attributes a1 and a2
WithAttrs(g, a1, a2) ==
    [g EXCEPT !.assoc = [t \in 1..g.termcount |->
                            IF t = 1 THEN a1.assoc ELSE IF t = 2 THEN a2.assoc ELSE 0],
              !.precedence = [t \in 1..g.termcount |->
                            IF t = 1 THEN a1.precedence
                            ELSE IF t = 2 THEN a2.precedence ELSE 0],
              !.declared = (IF a1.declared THEN {1} ELSE {})
                             \cup (IF a2.declared THEN {2} ELSE {})]

\* the errors of the SCANNER section reported through record_error
ScannerFlaws ==
    {"Duplicate token definition ignored", "Missing close quote",
     "Lower bound of range is greater than upper bound",
     "Cannot define an alias for an alias"}

TERMINAL == 1
NONTERMINAL == 2

\* symbol->type of the symbol with this token number
TypeOf(token) == IF token <= grammar.termcount THEN TERMINAL ELSE NONTERMINAL

\* RHSIDE(prod, dot)->type != TERMINAL || (flags & EMPTY) != EMPTY
NotEpsilon(token) == TypeOf(token) # TERMINAL \/ token \notin grammar.empty

(***************************************************************************)
(* Productions                                                             *)
(***************************************************************************)
\* PRODCOUNT: the productions are entries 1..PRODCOUNT-1
PRODCOUNT(prods) == Len(prods) + 1

\* one alternative of a rule as insert_production stores it: length is the
\* index after the last symbol which is not an epsilon terminal
insert_production(rule) ==
    [lhside |-> rule.lhside, rhside |-> Arr(rule.rhside),
     length |-> IF \E k \in 1..Len(rule.rhside) : NotEpsilon(rule.rhside[k])
                THEN CHOOSE k \in 1..Len(rule.rhside) :
                        /\ NotEpsilon(rule.rhside[k])
                        /\ \A m \in (k + 1)..Len(rule.rhside) : ~NotEpsilon(rule.rhside[m])
                ELSE 0,
     semantic |-> rule.semantic, steps |-> INT_MAX, insert |-> INT_MAX]

\* the rules whose left hand side is the nonterminal token, in file order
RECURSIVE RulesOf(_, _, _)
RulesOf(rules, token, n) ==
    IF n > Len(rules) THEN <<>>
    ELSE (IF rules[n].lhside = token THEN <<insert_production(rules[n])>> ELSE <<>>)
            \o RulesOf(rules, token, n + 1)

\* build_productions: the productions in nonterminal token value order
RECURSIVE build_productions(_)
build_productions(i) ==
    IF i > grammar.termcount + grammar.nontermcount THEN <<>>
    ELSE RulesOf(grammar.rules, i, 1) \o build_productions(i + 1)

\* tables->lhsindex[token - termcount]: the first production of the
\* nonterminal, PRODCOUNT when it has none
lhsindex(prods, token) ==
    IF \E j \in 1..Len(prods) : prods[j].lhside = token
    THEN CHOOSE j \in 1..Len(prods) :
            /\ prods[j].lhside = token
            /\ \A m \in 1..(j - 1) : prods[m].lhside # token
    ELSE PRODCOUNT(prods)

\* the minimum of a field over the productions k, k+1, ... of one nonterminal
RECURSIVE MinOver(_, _, _, _, _)
MinOver(prods, token, k, field, min) ==
    IF k < PRODCOUNT(prods) /\ prods[k].lhside = token
    THEN MinOver(prods, token, k + 1, field,
                 IF prods[k][field] < min THEN prods[k][field] ELSE min)
    ELSE min

\* the loop over j of compute_sortkeys: steps and insert of production i
RECURSIVE SortKey(_, _, _, _)
SortKey(prods, i, j, acc) ==
    IF j >= prods[i].length THEN acc
    ELSE LET tok == prods[i].rhside[j] IN
         IF TypeOf(tok) = NONTERMINAL
         THEN \* bind the two minima once
              LET minsteps == MinOver(prods, tok, lhsindex(prods, tok), "steps", INT_MAX)
                  mininsert == MinOver(prods, tok, lhsindex(prods, tok), "insert", INT_MAX)
              IN SortKey(prods, i, j + 1,
                    [steps |-> IF acc.steps < INT_MAX /\ minsteps < INT_MAX
                               THEN acc.steps + minsteps ELSE INT_MAX,
                     insert |-> IF acc.insert < INT_MAX /\ mininsert < INT_MAX
                                THEN acc.insert + mininsert ELSE INT_MAX])
         ELSE SortKey(prods, i, j + 1,
                    [acc EXCEPT !.insert =
                        IF tok \notin grammar.empty /\ acc.insert < INT_MAX
                        THEN acc.insert + grammar.insert[tok] ELSE acc.insert])

\* one pass of the do loop of compute_sortkeys over productions i, i+1, ...
RECURSIVE SortKeysPass(_, _, _)
SortKeysPass(prods, i, changed) ==
    IF i >= PRODCOUNT(prods) THEN [prods |-> prods, changed |-> changed]
    ELSE LET key == SortKey(prods, i, 0, [steps |-> 0, insert |-> 0])
             newsteps == key.steps < INT_MAX /\ key.steps + 1 < prods[i].steps
             newinsert == key.insert < prods[i].insert
         IN SortKeysPass(
               [prods EXCEPT ![i].steps = IF newsteps THEN key.steps + 1 ELSE @,
                             ![i].insert = IF newinsert THEN key.insert ELSE @],
               i + 1, changed \/ newsteps \/ newinsert)

RECURSIVE compute_sortkeys(_)
compute_sortkeys(prods) ==
    LET pass == SortKeysPass(prods, 1, FALSE) IN
    IF pass.changed THEN compute_sortkeys(pass.prods) ELSE pass.prods

\* the smallest of the remaining right hand sides of PRODUCTION(j)'s nonterminal
RECURSIVE MinProduction(_, _, _, _)
MinProduction(prods, j, k, min) ==
    IF k < PRODCOUNT(prods) /\ prods[k].lhside = prods[j].lhside
    THEN MinProduction(prods, j, k + 1,
            IF prods[k].steps < prods[min].steps THEN k
            ELSE IF prods[k].steps = prods[min].steps /\ prods[k].insert < prods[min].insert
                 THEN k ELSE min)
    ELSE min

\* the productions left in the order of the input file
sort_productions_asgiven(prods, j) == prods

\* sort_productions: selection sort of the alternatives of each nonterminal;
\* the alternatives of the nonterminals are contiguous and in token order,
\* so the two loops visit j = 1 .. PRODCOUNT-1
RECURSIVE sort_productions(_, _)
sort_productions(prods, j) ==
    IF j >= PRODCOUNT(prods) THEN prods
    ELSE LET min == MinProduction(prods, j, j + 1, j) IN
         sort_productions([prods EXCEPT ![j] = prods[min], ![min] = prods[j]], j + 1)

(***************************************************************************)
(* Items and the canonical collection                                      *)
(***************************************************************************)
COLLCOUNT(coll) == Len(coll) + 1

ITEMCOUNT(coll, state) == Len0(coll[state].itemset)

\* a new item: no descendant, empty follow and lookahead, no ancestors
\* and no update list
NewItem(prod, dot) ==
    [prod |-> prod, dot |-> dot, descendant |-> [state |-> 0, item |-> 0],
     follow |-> {}, lookahead |-> {}, ancestors |-> <<>>, update |-> <<>>]

\* the dot moved from position dot over epsilon terminals
RECURSIVE SkipEpsilon(_, _)
SkipEpsilon(production, dot) ==
    IF dot < Len0(production.rhside) /\ ~NotEpsilon(production.rhside[dot])
    THEN SkipEpsilon(production, dot + 1)
    ELSE dot

\* dot < PRODUCTION(prod).length && RHSIDE(prod, dot)->value.value.token == token
DotBefore(prods, it, token) ==
    it.dot < prods[it.prod].length /\ prods[it.prod].rhside[it.dot] = token

\* apply_closure on the item set of one state, from item index on; the
\* state is a configuration record, the loops over i and j are ClosureI
\* and ClosureJ
RECURSIVE ClosureI(_, _, _)
RECURSIVE ClosureJ(_, _, _, _)
ClosureI(prods, cfg, i) ==
    IF i >= Len0(cfg.itemset) THEN cfg
    ELSE LET prod == cfg.itemset[i].prod
             dot == cfg.itemset[i].dot
         IN IF dot < prods[prod].length /\ TypeOf(prods[prod].rhside[dot]) = NONTERMINAL
            THEN ClosureI(prods,
                    ClosureJ(prods, cfg, prods[prod].rhside[dot],
                             lhsindex(prods, prods[prod].rhside[dot])),
                    i + 1)
            ELSE ClosureI(prods, cfg, i + 1)

ClosureJ(prods, cfg, token, j) ==
    IF ~(j < PRODCOUNT(prods) /\ prods[j].lhside = token) THEN cfg
    ELSE IF \E k \in cfg.kernel..(Len0(cfg.itemset) - 1) : cfg.itemset[k].prod = j
         THEN ClosureJ(prods, cfg, token, j + 1)
         ELSE LET added == [cfg EXCEPT !.itemset =
                              Append0(cfg.itemset, NewItem(j, SkipEpsilon(prods[j], 0)))]
              IN ClosureJ(prods,
                    IF ERRORREPAIR \in options
                    THEN ClosureI(prods, added, Len0(added.itemset) - 1)
                    ELSE added,
                    token, j + 1)

apply_closure(prods, cfg, from) == ClosureI(prods, cfg, from)

\* a comparison of kernels which takes the order of the items into account
\* whether or not ERRORREPAIR is selected
itemset_equal_ordered(itemset1, kernel1, itemset2, kernel2) ==
    /\ kernel1 = kernel2
    /\ \A i \in 0..(kernel1 - 1) :
          /\ itemset1[i].prod = itemset2[i].prod
          /\ itemset1[i].dot = itemset2[i].dot

\* itemset_equal
itemset_equal(itemset1, kernel1, itemset2, kernel2) ==
    IF kernel1 # kernel2 THEN FALSE
    ELSE IF ERRORREPAIR \in options
         THEN \A i \in 0..(kernel1 - 1) :
                 /\ itemset1[i].prod = itemset2[i].prod
                 /\ itemset1[i].dot = itemset2[i].dot
         ELSE \A i \in 0..(kernel1 - 1) : \E j \in 0..(kernel2 - 1) :
                 /\ itemset1[j].prod = itemset2[i].prod
                 /\ itemset1[j].dot = itemset2[i].dot

\* the local copy of the goto kernel items lookup_goto creates
RECURSIVE GotoKernel(_, _, _, _)
GotoKernel(prods, itemset, token, i) ==
    IF i >= Len0(itemset) THEN <<>>
    ELSE (IF DotBefore(prods, itemset[i], token)
          THEN << NewItem(itemset[i].prod,
                          SkipEpsilon(prods[itemset[i].prod], itemset[i].dot + 1)) >>
          ELSE <<>>)
         \o GotoKernel(prods, itemset, token, i + 1)

\* the loop of lookup_goto which sets up descendant and ancestor values:
\* item j of state, the k-th with the dot before token, gets descendant
\* (i, k) and is appended to the ancestors of item k of state i
RECURSIVE SetLinks(_, _, _, _, _, _, _)
SetLinks(prods, coll, state, token, i, j, k) ==
    IF j >= ITEMCOUNT(coll, state) THEN coll
    ELSE IF DotBefore(prods, coll[state].itemset[j], token)
         THEN SetLinks(prods,
                 [[coll EXCEPT ![state].itemset[j].descendant = [state |-> i, item |-> k]]
                     EXCEPT ![i].itemset[k].ancestors =
                                Append(@, [state |-> state, item |-> j])],
                 state, token, i, j + 1, k + 1)
         ELSE SetLinks(prods, coll, state, token, i, j + 1, k)

\* lookup_goto: the collection after the call and the state it returns
lookup_goto(prods, coll, state, token) ==
    LET kernel == Arr(GotoKernel(prods, coll[state].itemset, token, 0))
        found == { i \in 2..(COLLCOUNT(coll) - 1) :
                     itemset_equal(coll[i].itemset, coll[i].kernel, kernel, Len0(kernel)) }
        i == IF found = {} THEN COLLCOUNT(coll)
             ELSE CHOOSE m \in found : \A n \in found : m <= n
        grown == IF found = {}
                 THEN Append(coll, apply_closure(prods,
                         [itemset |-> kernel, kernel |-> Len0(kernel), gotos |-> <<>>], 0))
                 ELSE coll
    IN [coll |-> SetLinks(prods, grown, state, token, i, 0, 0), state |-> i]

\* the number of items of state i with the dot before token, and the last
RECURSIVE CountDots(_, _, _, _, _)
CountDots(prods, itemset, token, j, acc) ==
    IF j >= Len0(itemset) THEN acc
    ELSE CountDots(prods, itemset, token, j + 1,
            IF DotBefore(prods, itemset[j], token)
            THEN [count |-> acc.count + 1, found |-> j] ELSE acc)

\* the loop over token of generate_parser for state i
RECURSIVE GotoTokens(_, _, _, _)
GotoTokens(prods, coll, i, token) ==
    IF token > grammar.termcount + grammar.nontermcount THEN coll
    ELSE LET c == CountDots(prods, coll[i].itemset, token, 0, [count |-> 0, found |-> 0])
         IN IF /\ DEFAULTREDUCE \in options
               /\ c.count = 1
               /\ coll[i].itemset[c.found].dot = prods[coll[i].itemset[c.found].prod].length - 1
            THEN GotoTokens(prods, coll, i, token + 1)
            ELSE IF c.count > 0
                 THEN LET g == lookup_goto(prods, coll, i, token) IN
                      GotoTokens(prods,
                         [g.coll EXCEPT ![i].gotos =
                             Append(@, [token |-> token, state |-> g.state])],
                         i, token + 1)
                 ELSE GotoTokens(prods, coll, i, token + 1)

\* state 1 of the canonical collection: the augmented production with the
\* dot on the left, closed
StateOne(prods) ==
    apply_closure(prods, [itemset |-> Arr(<<NewItem(1, 0)>>), kernel |-> 1, gotos |-> <<>>], 0)

(***************************************************************************)
(* First sets                                                              *)
(***************************************************************************)
\* the loop over k of compute_first for production j of nonterminal token
RECURSIVE FirstK(_, _, _, _, _)
FirstK(prods, fst, token, j, k) ==
    IF k >= prods[j].length
    THEN [first |-> [fst.first EXCEPT ![token].nullable = TRUE],
          changed |-> fst.changed \/ ~fst.first[token].nullable]
    ELSE LET merge == fst.first[token].symbols \cup fst.first[prods[j].rhside[k]].symbols
             next == [first |-> [fst.first EXCEPT ![token].symbols = merge],
                      changed |-> fst.changed \/ merge # fst.first[token].symbols]
         IN IF ~next.first[prods[j].rhside[k]].nullable
            THEN next
            ELSE FirstK(prods, next, token, j, k + 1)

\* the loop over the productions j of nonterminal token
RECURSIVE FirstJ(_, _, _, _)
FirstJ(prods, fst, token, j) ==
    IF j < PRODCOUNT(prods) /\ prods[j].lhside = token
    THEN FirstJ(prods, FirstK(prods, fst, token, j, 0), token, j + 1)
    ELSE fst

\* the loop over the nonterminals i
RECURSIVE FirstI(_, _, _)
FirstI(prods, fst, i) ==
    IF i > grammar.nontermcount THEN fst
    ELSE FirstI(prods,
            FirstJ(prods, fst, grammar.termcount + i,
                   lhsindex(prods, grammar.termcount + i)),
            i + 1)

RECURSIVE FirstLoop(_, _)
FirstLoop(prods, fst) ==
    LET pass == FirstI(prods, [first |-> fst, changed |-> FALSE], 1) IN
    IF pass.changed THEN FirstLoop(prods, pass.first) ELSE pass.first

\* compute_first: each terminal is its own first set except epsilon which
\* is nullable, then the nonterminals until nothing changes
compute_first(prods) ==
    FirstLoop(prods,
        [t \in 1..(grammar.termcount + grammar.nontermcount) |->
            IF t <= grammar.termcount /\ t \notin grammar.empty
            THEN [symbols |-> {t}, nullable |-> FALSE]
            ELSE [symbols |-> {}, nullable |-> t <= grammar.termcount]])

(***************************************************************************)
(* Spontaneous follow sets and update lists                                *)
(***************************************************************************)
\* the follow set setup_lookahead computes for an item with the dot before
\* a nonterminal: the first sets of what follows it, and the item's own
\* follow set when all of that is nullable
RECURSIVE FollowOf(_, _, _, _, _)
FollowOf(prods, fst, it, k, follow) ==
    IF k >= prods[it.prod].length THEN follow \cup it.follow
    ELSE IF ~fst[prods[it.prod].rhside[k]].nullable
         THEN follow \cup fst[prods[it.prod].rhside[k]].symbols
         ELSE FollowOf(prods, fst, it, k + 1,
                       follow \cup fst[prods[it.prod].rhside[k]].symbols)

\* one pass of the do loop over the items j of a state: the closure items
\* of the nonterminal after the dot of item j receive item j's follow set
RECURSIVE SpontPass(_, _, _, _, _)
SpontPass(prods, fst, cfg, j, changed) ==
    IF j >= Len0(cfg.itemset) THEN [cfg |-> cfg, changed |-> changed]
    ELSE LET it == cfg.itemset[j] IN
         IF it.dot < prods[it.prod].length
               /\ TypeOf(prods[it.prod].rhside[it.dot]) = NONTERMINAL
         THEN LET follow == FollowOf(prods, fst, it, it.dot + 1, {})
                  hit == { k \in cfg.kernel..(Len0(cfg.itemset) - 1) :
                             /\ prods[cfg.itemset[k].prod].lhside = prods[it.prod].rhside[it.dot]
                             /\ ~(follow \subseteq cfg.itemset[k].follow) }
              IN SpontPass(prods, fst,
                    [cfg EXCEPT !.itemset = [k \in DOMAIN cfg.itemset |->
                        IF k \in hit
                        THEN [cfg.itemset[k] EXCEPT !.follow = @ \cup follow]
                        ELSE cfg.itemset[k]]],
                    j + 1, changed \/ hit # {})
         ELSE SpontPass(prods, fst, cfg, j + 1, changed)

RECURSIVE SpontLoop(_, _, _)
SpontLoop(prods, fst, cfg) ==
    LET pass == SpontPass(prods, fst, cfg, 0, FALSE) IN
    IF pass.changed THEN SpontLoop(prods, fst, pass.cfg) ELSE pass.cfg

\* find_update
find_update(update, match) ==
    IF \E n \in 1..Len(update) : update[n] = match
    THEN (CHOOSE n \in 1..Len(update) :
             update[n] = match /\ \A m \in 1..(n - 1) : update[m] # match) - 1
    ELSE -1

\* the loop over the closure items k for kernel item j of state i: every
\* item holding the marker of j is recorded in the update list of j, and
\* so is its descendant
RECURSIVE UpdateK(_, _, _, _, _)
UpdateK(cfg, i, j, k, update) ==
    IF k >= Len0(cfg.itemset) THEN update
    ELSE IF grammar.termcount + 1 + j \in cfg.itemset[k].follow
         THEN LET d == cfg.itemset[k].descendant
                  u1 == Append(update, [state |-> i, item |-> k])
              IN UpdateK(cfg, i, j, k + 1,
                    IF d.state # 0 /\ (d.state # i \/ d.item # j) /\ find_update(u1, d) < 0
                    THEN Append(u1, d) ELSE u1)
         ELSE UpdateK(cfg, i, j, k + 1, update)

\* the loop over the kernel items j which builds the update lists and
\* deletes the markers
RECURSIVE UpdateJ(_, _, _)
UpdateJ(cfg, i, j) ==
    IF j >= cfg.kernel THEN cfg
    ELSE LET d == cfg.itemset[j].descendant
             u0 == IF d.state # 0 THEN Append(cfg.itemset[j].update, d)
                   ELSE cfg.itemset[j].update
             update == UpdateK(cfg, i, j, cfg.kernel, u0)
         IN UpdateJ([cfg EXCEPT !.itemset = [k \in DOMAIN cfg.itemset |->
                        IF k = j
                        THEN [cfg.itemset[k] EXCEPT
                                 !.update = update,
                                 !.follow = @ \ {grammar.termcount + 1 + j}]
                        ELSE IF k >= cfg.kernel
                             THEN [cfg.itemset[k] EXCEPT
                                     !.follow = @ \ {grammar.termcount + 1 + j}]
                             ELSE cfg.itemset[k]]],
                    i, j + 1)

\* the body of the loop over the states i of setup_lookahead
SetupState(prods, fst, cfg, i) ==
    UpdateJ(
        SpontLoop(prods, fst,
            [cfg EXCEPT !.itemset = [j \in DOMAIN cfg.itemset |->
                IF j < cfg.kernel
                THEN [cfg.itemset[j] EXCEPT !.follow = @ \cup {grammar.termcount + 1 + j}]
                ELSE cfg.itemset[j]]]),
        i, 0)

setup_lookahead(prods, fst, coll) ==
    [i \in 1..Len(coll) |-> SetupState(prods, fst, coll[i], i)]

(***************************************************************************)
(* Lookahead propagation                                                   *)
(***************************************************************************)
\* the second loop of propagate_lookahead: every item's lookahead set is
\* initialized to its spontaneous follow set, which is also propagated to
\* the item's descendant
RECURSIVE InitLookahead(_, _, _)
InitLookahead(coll, i, j) ==
    IF i >= COLLCOUNT(coll) THEN coll
    ELSE IF j >= ITEMCOUNT(coll, i) THEN InitLookahead(coll, i + 1, 0)
    ELSE LET it == coll[i].itemset[j] IN
         IF it.follow # {}
         THEN LET own == [coll EXCEPT ![i].itemset[j].lookahead = @ \cup it.follow] IN
              InitLookahead(
                 IF it.descendant.state # 0
                 THEN [own EXCEPT ![it.descendant.state].itemset[it.descendant.item].lookahead
                                      = @ \cup it.follow]
                 ELSE own,
                 i, j + 1)
         ELSE InitLookahead(coll, i, j + 1)

\* one pass of the do loop: every kernel item (i, j) propagates its
\* lookahead set to the k-th item (counted from 0) of its update list
RECURSIVE PropagatePass(_, _, _, _, _)
PropagatePass(coll, i, j, k, changed) ==
    IF i >= COLLCOUNT(coll) THEN [coll |-> coll, changed |-> changed]
    ELSE IF j >= coll[i].kernel THEN PropagatePass(coll, i + 1, 0, 0, changed)
    ELSE IF k >= Len(coll[i].itemset[j].update) THEN PropagatePass(coll, i, j + 1, 0, changed)
    ELSE LET u == coll[i].itemset[j].update[k + 1]
             merge == coll[u.state].itemset[u.item].lookahead \cup coll[i].itemset[j].lookahead
         IN IF merge = coll[u.state].itemset[u.item].lookahead
            THEN PropagatePass(coll, i, j, k + 1, changed)
            ELSE PropagatePass([coll EXCEPT ![u.state].itemset[u.item].lookahead = merge],
                               i, j, k + 1, TRUE)

\* a propagation which stops after its first pass
PropagateOnce(coll) == PropagatePass(coll, 1, 0, 0, FALSE).coll

\* a propagation which stops after its second pass
PropagateTwice(coll) ==
    PropagatePass(PropagatePass(coll, 1, 0, 0, FALSE).coll, 1, 0, 0, FALSE).coll

\* the do loop: propagate lookahead sets until there are no more changes
RECURSIVE PropagateLoop(_)
PropagateLoop(coll) ==
    LET pass == PropagatePass(coll, 1, 0, 0, FALSE) IN
    IF pass.changed THEN PropagateLoop(pass.coll) ELSE pass.coll

\* the collection when the do loop of propagate_lookahead is entered:
\* lookahead sets cleared, then set to the spontaneous follow sets, and the
\* sentinel added to the first item of state 1
LookaheadStart(coll) ==
    LET cleared == [i \in 1..Len(coll) |->
                      [coll[i] EXCEPT !.itemset = [j \in DOMAIN coll[i].itemset |->
                          [coll[i].itemset[j] EXCEPT !.lookahead = {}]]]]
        spont == InitLookahead(cleared, 1, 0)
    IN [spont EXCEPT ![1].itemset[0].lookahead = @ \cup {grammar.sentinel}]

propagate_lookahead(coll) == PropagateLoop(LookaheadStart(coll))

(***************************************************************************)
(* The parsing table                                                       *)
(***************************************************************************)
\* set_action on one row of tables->lrstates: the row and the error returned
set_action(row, token, action) ==
    IF row[token] # 0 /\ row[token] # action
    THEN [row |-> row,
          result |-> IF row[token] > 0 \/ action > 0
                     THEN SHIFT_REDUCE_ERROR ELSE REDUCE_REDUCE_ERROR]
    ELSE [row |-> [row EXCEPT ![token] = action], result |-> NO_ERROR]

\* the loop of build_table which puts the shift and shiftreduce actions of
\* the items j, j+1, ... into the row
RECURSIVE ShiftActions(_, _, _, _)
ShiftActions(prods, itemset, j, row) ==
    IF j >= Len0(itemset) THEN row
    ELSE LET it == itemset[j] IN
         IF it.descendant.state # 0
         THEN ShiftActions(prods, itemset, j + 1,
                 set_action(row, prods[it.prod].rhside[it.dot],
                            SHIFT_OFFSET + it.descendant.state).row)
         ELSE IF it.dot < prods[it.prod].length
              THEN ShiftActions(prods, itemset, j + 1,
                      set_action(row, prods[it.prod].rhside[it.dot], it.prod).row)
              ELSE ShiftActions(prods, itemset, j + 1, row)

\* the reduce by production prod on the lookahead symbols token, token+1, ...
\* (the symbols of one lookahead set address different entries of the row,
\* so the order in which the set is walked does not matter)
RECURSIVE ReduceOn(_, _, _, _)
ReduceOn(lookahead, prod, token, acc) ==
    IF token > grammar.termcount THEN acc
    ELSE IF token \in lookahead
         THEN LET s == set_action(acc.row, token, -prod) IN
              ReduceOn(lookahead, prod, token + 1,
                       [row |-> s.row, result |-> acc.result \cup {s.result}])
         ELSE ReduceOn(lookahead, prod, token + 1, acc)

\* the loop of build_table which adds the reduce actions of the items
\* j, j+1, ...; result is kept as the set of the errors or-ed into it
RECURSIVE ReduceActions(_, _, _, _)
ReduceActions(prods, itemset, j, acc) ==
    IF j >= Len0(itemset) THEN acc
    ELSE IF itemset[j].dot >= prods[itemset[j].prod].length
         THEN ReduceActions(prods, itemset, j + 1,
                 ReduceOn(itemset[j].lookahead, itemset[j].prod, 1, acc))
         ELSE ReduceActions(prods, itemset, j + 1, acc)

\* find_conflict: the reports of the pairs of reduces whose lookaheads
\* intersect, in the order of the loops over i and j
RECURSIVE find_conflict(_, _, _, _, _)
find_conflict(prods, itemset, state, i, j) ==
    IF i >= Len0(itemset) THEN <<>>
    ELSE IF j >= Len0(itemset) \/ itemset[i].dot < prods[itemset[i].prod].length
         THEN find_conflict(prods, itemset, state, i + 1, i + 2)
    ELSE (IF /\ itemset[j].dot >= prods[itemset[j].prod].length
             /\ itemset[i].lookahead \cap itemset[j].lookahead # {}
          THEN << [msg |-> "Reduce-Reduce conflict in state", state |-> state,
                   on |-> itemset[i].lookahead \cap itemset[j].lookahead,
                   items |-> <<i, j>>] >>
          ELSE <<>>)
         \o find_conflict(prods, itemset, state, i, j + 1)

(***************************************************************************)
(* The state splitter.  A conflict is a list of collisions; a collision    *)
(* has one lane per conflicting reduce and a lane is a list of entries     *)
(* (state, items) with the follow set the lane has accumulated.  Lists are *)
(* numbered from 1 here and from 0 in the source.                          *)
(***************************************************************************)
\* the elements of an intset in the order of its array
RECURSIVE INTSET(_)
INTSET(set) ==
    IF set = {} THEN <<>>
    ELSE LET least == CHOOSE x \in set : \A y \in set : x <= y
         IN <<least>> \o INTSET(set \ {least})

\* the last entry of a lane
LaneEnd(tr) == tr.lane[Len(tr.lane)]

\* find_conflict: the collision it creates, one lane for every reduce
\* whose lookahead intersects that of another reduce of the state
ConflictLanes(prods, itemset, state) ==
    LET matches == { i \in DOMAIN itemset :
                       /\ itemset[i].dot >= prods[itemset[i].prod].length
                       /\ \E j \in DOMAIN itemset :
                             /\ j # i
                             /\ itemset[j].dot >= prods[itemset[j].prod].length
                             /\ itemset[i].lookahead \cap itemset[j].lookahead # {} }
    IN [lanes |-> [n \in 1..Cardinality(matches) |->
                     [complete |-> FALSE,
                      lane |-> << [state |-> state, items |-> {INTSET(matches)[n]}] >>,
                      follow |-> itemset[INTSET(matches)[n]].follow]],
        success |-> FALSE]

\* spontaneous_conflict: two lanes of the collision have intersecting
\* spontaneous follow sets
spontaneous_conflict(c) ==
    \E i \in 1..Len(c.lanes) : \E j \in (i + 1)..Len(c.lanes) :
        c.lanes[i].follow \cap c.lanes[j].follow # {}

\* kernel_items for one lane: the lane is made to end with the kernel items
\* of its last state which propagate to its last items
KernelLane(coll, tr) ==
    IF tr.complete THEN tr
    ELSE LET e == LaneEnd(tr)
             cfg == coll[e.state]
             kernel == { item \in e.items : item < cfg.kernel } \cup
                       { k \in 0..(cfg.kernel - 1) :
                           \E item \in e.items :
                              /\ item >= cfg.kernel
                              /\ \E l \in 1..Len(cfg.itemset[k].update) :
                                    cfg.itemset[k].update[l] =
                                        [state |-> e.state, item |-> item] }
         IN IF kernel = {} THEN [tr EXCEPT !.complete = TRUE]
            ELSE IF kernel # e.items
                 THEN [tr EXCEPT !.lane = Append(@, [state |-> e.state, items |-> kernel])]
                 ELSE tr

kernel_items(coll, c) ==
    [c EXCEPT !.lanes = [i \in DOMAIN c.lanes |-> KernelLane(coll, c.lanes[i])]]

\* the lane of the k-th copy (k from 0) of a collision made by
\* previous_states: the k-th ancestors of the last items are appended, their
\* follow sets are merged into the lane's, and the lane is complete if the
\* state added occurs earlier in the lane
AppendAncestor(coll, tr, k) ==
    LET e == LaneEnd(tr)
        anc(item) == coll[e.state].itemset[item].ancestors[k + 1]
        last == CHOOSE x \in e.items : \A y \in e.items : y <= x
    IN [complete |-> \E l \in 1..Len(tr.lane) : tr.lane[l].state = anc(last).state,
        lane |-> Append(tr.lane, [state |-> anc(last).state,
                                  items |-> { anc(item).item : item \in e.items }]),
        follow |-> tr.follow \cup
                   UNION { coll[anc(item).state].itemset[anc(item).item].follow :
                             item \in e.items }]

\* previous_states from collision i on: every collision without success is
\* replaced by one copy for each ancestor state of the end of its lanes
RECURSIVE previous_states(_, _, _)
previous_states(coll, conflict, i) ==
    IF i > Len(conflict) THEN conflict
    ELSE IF conflict[i].success THEN previous_states(coll, conflict, i + 1)
    ELSE LET src == conflict[i]
             open == { j \in 1..Len(src.lanes) : ~src.lanes[j].complete }
             lane == CHOOSE j \in open : \A n \in open : j <= n
             e == LaneEnd(src.lanes[lane])
             item == CHOOSE x \in e.items : \A y \in e.items : x <= y
             ancount == IF open = {} THEN 0
                        ELSE Len(coll[e.state].itemset[item].ancestors)
         IN IF ancount = 0
            THEN previous_states(coll,
                    [conflict EXCEPT ![i].lanes =
                        [j \in DOMAIN src.lanes |-> [src.lanes[j] EXCEPT !.complete = TRUE]]],
                    i + 1)
            ELSE previous_states(coll,
                    SubSeq(conflict, 1, i - 1)
                    \o [k \in 1..ancount |->
                          [src EXCEPT !.lanes = [j \in DOMAIN src.lanes |->
                              IF src.lanes[j].complete THEN src.lanes[j]
                              ELSE AppendAncestor(coll, src.lanes[j], k - 1)]]]
                    \o SubSeq(conflict, i + 1, Len(conflict)),
                    i + ancount)

\* the lookahead of a lane: its follow set and, unless the lane is
\* complete, the lookahead sets of the items at its end
LaneLookahead(coll, tr) ==
    tr.follow \cup
    (IF tr.complete THEN {}
     ELSE UNION { coll[LaneEnd(tr).state].itemset[item].lookahead :
                    item \in LaneEnd(tr).items })

\* check_conflicts: a collision succeeds when no two of its lanes have
\* intersecting lookaheads
check_conflicts(coll, conflict) ==
    [i \in DOMAIN conflict |->
        IF conflict[i].success THEN conflict[i]
        ELSE [conflict[i] EXCEPT !.success =
                 ~\E j \in 1..Len(conflict[i].lanes) :
                  \E k \in (j + 1)..Len(conflict[i].lanes) :
                     LaneLookahead(coll, conflict[i].lanes[j])
                        \cap LaneLookahead(coll, conflict[i].lanes[k]) # {}]]

\* the result of the do loop of split_states after one more pass
OnePassMore(traced) == [traced EXCEPT !.passes = @ + 1]

\* the do loop of split_states; passes counts the passes through its body
RECURSIVE TraceLanes(_, _)
TraceLanes(coll, conflict) ==
    IF \E i \in DOMAIN conflict :
          ~conflict[i].success /\ spontaneous_conflict(conflict[i])
    THEN [conflict |-> conflict, failure |-> TRUE, passes |-> 1]
    ELSE LET kern == [i \in DOMAIN conflict |->
                        IF conflict[i].success THEN conflict[i]
                        ELSE kernel_items(coll, conflict[i])]
             checked == check_conflicts(coll, previous_states(coll, kern, 1))
         IN IF \E i \in DOMAIN checked : ~checked[i].success
            THEN OnePassMore(TraceLanes(coll, checked))
            ELSE [conflict |-> checked, failure |-> FALSE, passes |-> 1]

\* merging the lookaheads of two groups lane by lane creates no conflict
Compatible(la1, la2) ==
    \A k \in DOMAIN la1 : \A l \in DOMAIN la1 :
        k < l => (la1[k] \cup la2[k]) \cap (la1[l] \cup la2[l]) = {}

\* one turn of the loops over i and j of group_conflicts
RECURSIVE GroupPass(_, _, _, _)
GroupPass(groups, i, j, changed) ==
    IF i > Len(groups) THEN [groups |-> groups, changed |-> changed]
    ELSE IF j > Len(groups) THEN GroupPass(groups, i + 1, i + 2, changed)
    ELSE IF Compatible(groups[i].lookahead, groups[j].lookahead)
         THEN GroupPass(
                 [n \in 1..(Len(groups) - 1) |->
                    IF n = i
                    THEN [members |-> groups[i].members \cup groups[j].members,
                          lookahead |-> [k \in DOMAIN groups[i].lookahead |->
                              groups[i].lookahead[k] \cup groups[j].lookahead[k]]]
                    ELSE IF n < j THEN groups[n] ELSE groups[n + 1]],
                 i, j + 1, TRUE)
         ELSE GroupPass(groups, i, j + 1, changed)

RECURSIVE GroupLoop(_)
GroupLoop(groups) ==
    LET pass == GroupPass(groups, 1, 2, FALSE) IN
    IF pass.changed THEN GroupLoop(pass.groups) ELSE pass.groups

\* group_conflicts: every collision starts in a group of its own and the
\* groups with compatible lookaheads are merged
group_conflicts(coll, conflict) ==
    GroupLoop([i \in DOMAIN conflict |->
                 [members |-> {i},
                  lookahead |-> [j \in 1..Len(conflict[1].lanes) |->
                                    LaneLookahead(coll, conflict[i].lanes[j])]]])

\* the copy copy_states makes of a state: no ancestors, no lookahead
CopyOf(cfg) ==
    [itemset |-> [k \in DOMAIN cfg.itemset |->
                    [prod |-> cfg.itemset[k].prod, dot |-> cfg.itemset[k].dot,
                     descendant |-> cfg.itemset[k].descendant,
                     follow |-> cfg.itemset[k].follow, lookahead |-> {},
                     ancestors |-> <<>>,
                     update |-> IF k < cfg.kernel THEN cfg.itemset[k].update ELSE <<>>]],
     kernel |-> cfg.kernel, gotos |-> cfg.gotos]

\* the states of the lanes of a group, the end of each lane excepted
GroupStates(conflict, members) ==
    UNION { UNION { { conflict[c].lanes[k].lane[l].state :
                        l \in 1..(Len(conflict[c].lanes[k].lane) - 1) } :
                    k \in 1..Len(conflict[c].lanes) } :
            c \in members }

\* the states list[j], list[j+1], ... of a group: a state another group
\* uses already is copied to the end of the collection
RECURSIVE CopyList(_, _, _, _, _)
CopyList(coll, list, j, used, map) ==
    IF j > Len(list) THEN [coll |-> coll, used |-> used, map |-> map]
    ELSE IF list[j] \in used
         THEN CopyList(Append(coll, CopyOf(coll[list[j]])), list, j + 1, used,
                       Append(map, [old |-> list[j], new |-> COLLCOUNT(coll)]))
         ELSE CopyList(coll, list, j + 1, used \cup {list[j]}, map)

\* the first loop of copy_states over the groups i, i+1, ...
RECURSIVE CopyGroups(_, _, _, _, _, _)
CopyGroups(coll, conflict, groups, i, used, maps) ==
    IF i > Len(groups) THEN [coll |-> coll, maps |-> maps]
    ELSE LET r == CopyList(coll, INTSET(GroupStates(conflict, groups[i].members)),
                           1, used, <<>>)
         IN CopyGroups(r.coll, conflict, groups, i + 1, r.used, Append(maps, r.map))

map_state(map, state) ==
    IF \E n \in 1..Len(map) : map[n].old = state
    THEN map[CHOOSE n \in 1..Len(map) :
                /\ map[n].old = state
                /\ \A m \in 1..(n - 1) : map[m].old # state].new
    ELSE state

\* the list without the first of its entries equal to x
RemoveFirst(s, x) ==
    IF \E m \in 1..Len(s) : s[m] = x
    THEN LET m == CHOOSE n \in 1..Len(s) : s[n] = x /\ \A p \in 1..(n - 1) : s[p] # x
         IN SubSeq(s, 1, m - 1) \o SubSeq(s, m + 1, Len(s))
    ELSE s

\* item l of the state: a descendant in a copied state is moved to the copy
\* and recorded as its ancestor (at the end of a lane it is also removed
\* from the ancestors of the old descendant); the targets of the update
\* list are mapped
MapItem(coll, map, state, l, atend) ==
    LET it == coll[state].itemset[l]
        old == it.descendant.state
        new == map_state(map, old)
        item == it.descendant.item
        self == [state |-> state, item |-> l]
        linked == IF new # old
                  THEN [coll EXCEPT
                          ![state].itemset[l].descendant.state = new,
                          ![new].itemset[item].ancestors = Append(@, self),
                          ![old].itemset[item].ancestors =
                              IF atend THEN RemoveFirst(@, self) ELSE @]
                  ELSE coll
        upd == linked[state].itemset[l].update
    IN IF l < linked[state].kernel
       THEN [linked EXCEPT ![state].itemset[l].update =
                [m \in 1..Len(upd) |->
                    [state |-> map_state(map, upd[m].state), item |-> upd[m].item]]]
       ELSE linked

RECURSIVE MapItems(_, _, _, _, _)
MapItems(coll, map, state, l, atend) ==
    IF l >= ITEMCOUNT(coll, state) THEN coll
    ELSE MapItems(MapItem(coll, map, state, l, atend), map, state, l + 1, atend)

\* the items and then the gotos of a state mapped from the old to the new
\* states
MapState(coll, map, state, atend) ==
    LET items == MapItems(coll, map, state, 0, atend)
        gotos == items[state].gotos
    IN [items EXCEPT ![state].gotos =
           [m \in 1..Len(gotos) |->
               [token |-> gotos[m].token, state |-> map_state(map, gotos[m].state)]]]

\* the loop over the remaining entries l, l-1, ..., 0 of a lane (l counted
\* from 0 as in the source)
RECURSIVE MapRemaining(_, _, _, _)
MapRemaining(coll, map, lane, l) ==
    IF l < 0 THEN coll
    ELSE LET state == map_state(map, lane[l + 1].state)
             mapped == MapState(coll, map, state, FALSE)
         IN IF l > 0 /\ map_state(map, lane[l].state) = state
            THEN MapRemaining(mapped, map, lane, l - 2)
            ELSE MapRemaining(mapped, map, lane, l - 1)

\* the lanes k, k+1, ... of a collision connected to the copies
RECURSIVE MapLanes(_, _, _, _)
MapLanes(coll, map, lanes, k) ==
    IF k > Len(lanes) THEN coll
    ELSE MapLanes(
            MapRemaining(MapState(coll, map, LaneEnd(lanes[k]).state, TRUE),
                         map, lanes[k].lane, Len(lanes[k].lane) - 2),
            map, lanes, k + 1)

\* the collisions members[j], members[j+1], ... of a group
RECURSIVE MapMembers(_, _, _, _, _)
MapMembers(coll, map, conflict, members, j) ==
    IF j > Len(members) THEN coll
    ELSE MapMembers(MapLanes(coll, map, conflict[members[j]].lanes, 1),
                    map, conflict, members, j + 1)

\* the second loop of copy_states over the groups i, i+1, ...
RECURSIVE ConnectGroups(_, _, _, _, _)
ConnectGroups(coll, conflict, groups, maps, i) ==
    IF i > Len(groups) THEN coll
    ELSE IF Len(maps[i]) > 0
         THEN ConnectGroups(
                 MapMembers(coll, maps[i], conflict, INTSET(groups[i].members), 1),
                 conflict, groups, maps, i + 1)
         ELSE ConnectGroups(coll, conflict, groups, maps, i + 1)

\* copy_states: the collection with one copy of the lane states for every
\* group after the first which uses them
copy_states(coll, conflict, groups) ==
    LET copied == CopyGroups(coll, conflict, groups, 1, {}, <<>>)
    IN ConnectGroups(copied.coll, conflict, groups, copied.maps, 1)

\* split_states with SPLITSTATES which, when the lanes cannot be told
\* apart, reports the conflict and leaves process as it is
SplitByLanesKeepsProcess(prods, coll, state, proc) ==
    LET report == find_conflict(prods, coll[state].itemset, state, 0, 1)
        note(text) == [msg |-> text, state |-> state, on |-> {}, items |-> <<>>]
        traced == TraceLanes(coll, << ConflictLanes(prods, coll[state].itemset, state) >>)
    IN IF ~traced.failure
       THEN [coll |-> copy_states(coll, traced.conflict,
                                  group_conflicts(coll, traced.conflict)),
             stderr |-> Append(report, note("Reduce-Reduce conflict has been resolved")),
             process |-> proc, split |-> TRUE]
       ELSE [coll |-> coll,
             stderr |-> report \o << note("Spontaneous lookahead conflict"),
                                     note("Reduce-Reduce conflict cannot be resolved") >>,
             process |-> proc, split |-> FALSE]

\* split_states with SPLITSTATES which, when the lanes cannot be told
\* apart, has the table started again
SplitByLanesStartsAgain(prods, coll, state, proc) ==
    LET report == find_conflict(prods, coll[state].itemset, state, 0, 1)
        note(text) == [msg |-> text, state |-> state, on |-> {}, items |-> <<>>]
        traced == TraceLanes(coll, << ConflictLanes(prods, coll[state].itemset, state) >>)
    IN IF ~traced.failure
       THEN [coll |-> copy_states(coll, traced.conflict,
                                  group_conflicts(coll, traced.conflict)),
             stderr |-> Append(report, note("Reduce-Reduce conflict has been resolved")),
             process |-> proc, split |-> TRUE]
       ELSE [coll |-> coll,
             stderr |-> report \o << note("Spontaneous lookahead conflict"),
                                     note("Reduce-Reduce conflict cannot be resolved") >>,
             process |-> FALSE, split |-> TRUE]

\* the SPLITSTATES branch of split_states: the lanes are traced back from
\* the conflict and, unless two lanes conflict in their spontaneous follow
\* sets, the states of the lanes are copied
SplitByLanes(prods, coll, state, proc) ==
    LET report == find_conflict(prods, coll[state].itemset, state, 0, 1)
        note(text) == [msg |-> text, state |-> state, on |-> {}, items |-> <<>>]
        traced == TraceLanes(coll, << ConflictLanes(prods, coll[state].itemset, state) >>)
    IN IF ~traced.failure
       THEN [coll |-> copy_states(coll, traced.conflict,
                                  group_conflicts(coll, traced.conflict)),
             stderr |-> Append(report, note("Reduce-Reduce conflict has been resolved")),
             process |-> proc, split |-> TRUE]
       ELSE [coll |-> coll,
             stderr |-> report \o << note("Spontaneous lookahead conflict"),
                                     note("Reduce-Reduce conflict cannot be resolved") >>,
             process |-> FALSE, split |-> FALSE]

\* a splitter which traces the lanes whether or not SPLITSTATES is selected
split_states_always(prods, coll, state, proc) ==
    SplitByLanes(prods, coll, state, proc)

\* split_states for state: the collection, what is written to stderr, the
\* value of tables->process and the value returned
split_states(prods, coll, state, proc) ==
    IF SPLITSTATES \in options
    THEN SplitByLanes(prods, coll, state, proc)
    ELSE [coll |-> coll,
          stderr |-> find_conflict(prods, coll[state].itemset, state, 0, 1),
          process |-> FALSE, split |-> FALSE]

\* the first loop of resolve_ambiguity: the report of the tokens in
\* collision for the reduces i, i+1, ... of the state
RECURSIVE ReportCollisions(_, _, _, _, _)
ReportCollisions(prods, itemset, state, row, i) ==
    IF i >= Len0(itemset) THEN <<>>
    ELSE LET matches == IF itemset[i].dot >= prods[itemset[i].prod].length
                        THEN { t \in itemset[i].lookahead : row[t] > 0 } ELSE {}
         IN (IF matches # {}
             THEN << [msg |-> "Shift-Reduce conflict in state", state |-> state,
                      on |-> matches, items |-> <<i>>] >>
             ELSE <<>>)
            \o ReportCollisions(prods, itemset, state, row, i + 1)

\* the precedence of the last terminal of a right hand side, -1 without one
RECURSIVE ReducePrec(_, _, _)
ReducePrec(production, j, reduceprec) ==
    IF j >= Len0(production.rhside) THEN reduceprec
    ELSE ReducePrec(production, j + 1,
            IF TypeOf(production.rhside[j]) = TERMINAL
            THEN grammar.precedence[production.rhside[j]] ELSE reduceprec)

\* the items of the state which shift or shiftreduce on the token
ShiftItems(prods, itemset, token) ==
    { k \in DOMAIN itemset : DotBefore(prods, itemset[k], token) }

\* shiftprec and associativity as the loop over k of resolve_ambiguity
\* leaves them: those of the first item shifting on the token (every such
\* item has the same terminal after its dot), -1 and 0 without one
ShiftPrec(prods, itemset, token) ==
    IF ShiftItems(prods, itemset, token) = {}
    THEN [shiftprec |-> -1, associativity |-> 0]
    ELSE [shiftprec |-> grammar.precedence[token], associativity |-> grammar.assoc[token]]

\* a resolution which takes the numerically greater precedence for the
\* stronger one
set_ambiguity_greater(prods, itemset, state, row, item, token, reduceprec, shiftprec, associativity) ==
    IF ShiftItems(prods, itemset, token) = {} THEN [row |-> row, stderr |-> <<>>]
    ELSE IF reduceprec < shiftprec THEN [row |-> row, stderr |-> <<>>]
    ELSE IF shiftprec < reduceprec
         THEN [row |-> [row EXCEPT ![token] = -itemset[item].prod], stderr |-> <<>>]
    ELSE IF associativity = LEFT
         THEN [row |-> [row EXCEPT ![token] = -itemset[item].prod], stderr |-> <<>>]
    ELSE IF associativity = RIGHT THEN [row |-> row, stderr |-> <<>>]
    ELSE [row |-> row,
          stderr |-> << [msg |-> "precedence equals reduce precedence and associativity = NONE",
                         state |-> state, on |-> {token}, items |-> <<item>>] >>]

\* set_ambiguity for the reduce item and the token: the row and the report
set_ambiguity(prods, itemset, state, row, item, token, reduceprec, shiftprec, associativity) ==
    IF ShiftItems(prods, itemset, token) = {} THEN [row |-> row, stderr |-> <<>>]
    ELSE IF shiftprec < reduceprec THEN [row |-> row, stderr |-> <<>>]
    ELSE IF reduceprec < shiftprec
         THEN [row |-> [row EXCEPT ![token] = -itemset[item].prod], stderr |-> <<>>]
    ELSE IF associativity = LEFT
         THEN [row |-> [row EXCEPT ![token] = -itemset[item].prod], stderr |-> <<>>]
    ELSE IF associativity = RIGHT THEN [row |-> row, stderr |-> <<>>]
    ELSE [row |-> row,
          stderr |-> << [msg |-> "precedence equals reduce precedence and associativity = NONE",
                         state |-> state, on |-> {token}, items |-> <<item>>] >>]

\* the loop over the lookahead symbols of the reduce item i which has a
\* precedence: each is checked against the shifts on it
RECURSIVE ResolveOn(_, _, _, _, _, _, _)
ResolveOn(prods, itemset, state, i, reduceprec, token, acc) ==
    IF token > grammar.termcount THEN acc
    ELSE IF token \in itemset[i].lookahead
         THEN LET sp == ShiftPrec(prods, itemset, token)
                  s == set_ambiguity(prods, itemset, state, acc.row, i, token,
                                     reduceprec, sp.shiftprec, sp.associativity)
              IN ResolveOn(prods, itemset, state, i, reduceprec, token + 1,
                    [row |-> s.row, stderr |-> acc.stderr \o s.stderr,
                     failure |-> acc.failure \/
                        (reduceprec = sp.shiftprec /\ sp.associativity = NONE)])
         ELSE ResolveOn(prods, itemset, state, i, reduceprec, token + 1, acc)

\* the loop over the reduces i, i+1, ... of resolve_ambiguity under AMBIGUOUS
RECURSIVE ResolveItems(_, _, _, _, _)
ResolveItems(prods, itemset, state, i, acc) ==
    IF i >= Len0(itemset) THEN acc
    ELSE IF /\ itemset[i].dot >= prods[itemset[i].prod].length
            /\ \E t \in itemset[i].lookahead : acc.row[t] > 0
         THEN LET reduceprec == ReducePrec(prods[itemset[i].prod], 0, -1) IN
              IF reduceprec >= 0
              THEN ResolveItems(prods, itemset, state, i + 1,
                      ResolveOn(prods, itemset, state, i, reduceprec, 1, acc))
              ELSE ResolveItems(prods, itemset, state, i + 1,
                      [acc EXCEPT !.failure = TRUE,
                                  !.stderr = Append(@,
                                     [msg |-> "The reduce by production has no precedence",
                                      state |-> state, on |-> {}, items |-> <<i>>])])
         ELSE ResolveItems(prods, itemset, state, i + 1, acc)

\* resolve_ambiguity: the row of the state, what is written to stderr and
\* the value of tables->process
resolve_ambiguity(prods, itemset, state, row, proc) ==
    LET report == ReportCollisions(prods, itemset, state, row, 0) IN
    IF AMBIGUOUS \in options
    THEN LET r == ResolveItems(prods, itemset, state, 0,
                     [row |-> row, stderr |-> report, failure |-> FALSE])
         IN IF r.failure
            THEN [row |-> r.row, process |-> FALSE,
                  stderr |-> Append(r.stderr,
                     [msg |-> "Shift-Reduce conflict cannot be resolved",
                      state |-> state, on |-> {}, items |-> <<>>])]
            ELSE [row |-> r.row, process |-> proc,
                  stderr |-> Append(r.stderr,
                     [msg |-> "Shift-Reduce conflict has been resolved",
                      state |-> state, on |-> {}, items |-> <<>>])]
    ELSE [row |-> row, process |-> FALSE, stderr |-> report]

\* the body of the loop over the states i of build_table: the row, or the
\* collection with which the table is started again after a split
BuildState(prods, coll, i, proc) ==
    LET zero == [t \in 0..(grammar.termcount + grammar.nontermcount) |-> 0]
        accept == IF i = 1 THEN set_action(zero, grammar.goal, ACCEPT_OFFSET).row ELSE zero
        shifts == ShiftActions(prods, coll[i].itemset, 0, accept)
        reduces == ReduceActions(prods, coll[i].itemset, 0,
                                 [row |-> shifts, result |-> {NO_ERROR}])
        split == IF REDUCE_REDUCE_ERROR \in reduces.result
                 THEN split_states(prods, coll, i, proc)
                 ELSE [coll |-> coll, stderr |-> <<>>, process |-> proc, split |-> FALSE]
    IN IF split.split
       THEN [changed |-> TRUE, coll |-> propagate_lookahead(split.coll),
             row |-> reduces.row, process |-> split.process, stderr |-> split.stderr,
             result |-> reduces.result]
       ELSE IF SHIFT_REDUCE_ERROR \in reduces.result
       THEN LET r == resolve_ambiguity(prods, coll[i].itemset, i, reduces.row, split.process)
            IN [changed |-> FALSE, coll |-> coll,
                row |-> r.row, process |-> r.process, stderr |-> split.stderr \o r.stderr,
                result |-> reduces.result]
       ELSE [changed |-> FALSE, coll |-> coll,
             row |-> reduces.row, process |-> split.process, stderr |-> split.stderr,
             result |-> reduces.result]

\* the error repair value build_repair selects for state i
RepairValue(prods, cfg) ==
    LET it == cfg.itemset[0]
        usable == { j \in cfg.kernel..(Len0(cfg.itemset) - 1) :
                      \/ cfg.itemset[j].dot >= prods[cfg.itemset[j].prod].length
                      \/ TypeOf(prods[cfg.itemset[j].prod].rhside[cfg.itemset[j].dot]) = TERMINAL }
        Value(x) == IF x.dot >= prods[x.prod].length THEN -x.prod
                    ELSE prods[x.prod].rhside[x.dot]
    IN IF it.dot >= prods[it.prod].length THEN -it.prod
       ELSE IF TypeOf(prods[it.prod].rhside[it.dot]) = TERMINAL
            THEN prods[it.prod].rhside[it.dot]
            ELSE IF usable = {} THEN 0
                 ELSE Value(cfg.itemset[CHOOSE j \in usable : \A m \in usable : j <= m])

\* build_repair: tables->errortoken
build_repair(prods, coll) ==
    [i \in 0..COLLCOUNT(coll) |->
        IF ERRORREPAIR \in options /\ i >= 1 /\ i < COLLCOUNT(coll)
        THEN RepairValue(prods, coll[i]) ELSE 0]

\* the warnings of build_repair for the states without an error repair value
RECURSIVE RepairWarnings(_, _, _)
RepairWarnings(prods, coll, i) ==
    IF i >= COLLCOUNT(coll) \/ ERRORREPAIR \notin options THEN <<>>
    ELSE (IF /\ RepairValue(prods, coll[i]) = 0
          THEN << [msg |-> "Warning: state has no valid error repair value",
                   state |-> i, on |-> {}, items |-> <<>>] >>
          ELSE <<>>)
         \o RepairWarnings(prods, coll, i + 1)

(***************************************************************************)
(* The steps of sdtgen                                                     *)
(***************************************************************************)
\* the nonterminals which appear in a right hand side and have no rule
Undefined ==
    { t \in (grammar.termcount + 1)..(grammar.termcount + grammar.nontermcount) :
        /\ \E n \in 1..Len(grammar.rules) : \E k \in 1..Len(grammar.rules[n].rhside) :
              grammar.rules[n].rhside[k] = t
        /\ \A n \in 1..Len(grammar.rules) : grammar.rules[n].lhside # t }

\* parse_input of the grammar file: the semantic routine and parser_tokens
\* report their errors through record_error and go on
parser_tokens ==
    /\ gen_pc = "parse"
    /\ semerrors' = grammar.flaws \cup
                      (IF Undefined # {} THEN {"Undefined nonterminal"} ELSE {})
    /\ gen_pc' = "main"
    /\ UNCHANGED <<grammar, options, productions, collection, first, lrstates, gen_i,
                   process, stderr, errortoken, written, exitcode>>
    /\ UNCHANGED nongenvars

\* main after parse_input: nothing is generated after -q; otherwise the
\* scanner is generated first and process is cleared if init_scangen fails
main ==
    /\ gen_pc = "main"
    /\ IF process
       THEN /\ process' = grammar.scanok
            /\ gen_pc' = "productions"
       ELSE /\ process' = process
            /\ gen_pc' = "exit"
    /\ exitcode' = IF process THEN exitcode ELSE 0
    /\ UNCHANGED <<grammar, options, semerrors, productions, collection, first, lrstates,
                   gen_i, stderr, errortoken, written>>
    /\ UNCHANGED nongenvars

\* generate_parser up to the creation of state 1
generate_parser ==
    /\ gen_pc = "productions"
    /\ \E built \in {build_productions(grammar.termcount + 1)} :
       \E prods \in {IF ERRORREPAIR \in options
                     THEN sort_productions(compute_sortkeys(built), 1) ELSE built} :
          /\ productions' = prods
          /\ collection' = <<StateOne(prods)>>
    /\ gen_i' = 1
    /\ gen_pc' = "gotos"
    /\ UNCHANGED <<grammar, options, semerrors, first, lrstates, process, stderr,
                   errortoken, written, exitcode>>
    /\ UNCHANGED nongenvars

\* one turn of the loop over i which creates the goto states of state i
create_gotos ==
    /\ gen_pc = "gotos"
    /\ gen_i < COLLCOUNT(collection)
    /\ collection' = GotoTokens(productions, collection, gen_i, 1)
    /\ gen_i' = gen_i + 1
    /\ UNCHANGED <<gen_pc, grammar, options, semerrors, productions, first, lrstates,
                   process, stderr, errortoken, written, exitcode>>
    /\ UNCHANGED nongenvars

\* compute_first, setup_lookahead and propagate_lookahead
compute_lookahead ==
    /\ gen_pc = "gotos"
    /\ gen_i >= COLLCOUNT(collection)
    /\ \E fst \in {compute_first(productions)} :
          /\ first' = fst
          /\ collection' = propagate_lookahead(setup_lookahead(productions, fst, collection))
    /\ gen_i' = 1
    /\ lrstates' = <<>>
    /\ gen_pc' = "table"
    /\ UNCHANGED <<grammar, options, semerrors, productions, process, stderr,
                   errortoken, written, exitcode>>
    /\ UNCHANGED nongenvars

\* one turn of the loop over the states i of build_table; after a split
\* the lookahead has been propagated again and the table is started again
build_table ==
    /\ gen_pc = "table"
    /\ gen_i < COLLCOUNT(collection)
    /\ \E b \in {BuildState(productions, collection, gen_i, process)} :
          /\ lrstates' = IF b.changed THEN <<>> ELSE Append(lrstates, b.row)
          /\ gen_i' = IF b.changed THEN 1 ELSE gen_i + 1
          /\ collection' = b.coll
          /\ process' = b.process
          /\ stderr' = stderr \o b.stderr
    /\ UNCHANGED <<gen_pc, grammar, options, semerrors, productions, first,
                   errortoken, written, exitcode>>
    /\ UNCHANGED nongenvars

\* the end of generate_parser: build_repair
finish_parser ==
    /\ gen_pc = "table"
    /\ gen_i >= COLLCOUNT(collection)
    /\ errortoken' = build_repair(productions, collection)
    /\ stderr' = stderr \o RepairWarnings(productions, collection, 1)
    /\ gen_pc' = "write"
    /\ UNCHANGED <<grammar, options, semerrors, productions, collection, first, lrstates,
                   gen_i, process, written, exitcode>>
    /\ UNCHANGED nongenvars

\* a message of main or write_tables on stderr
FileError(msg) == [msg |-> msg, state |-> 0, on |-> {}, items |-> <<>>]

\* the end of main: the output tables are written if process is still set,
\* and main exits with 0; write_tables exits with 1 if the output file
\* cannot be created (fp is whether fopen returns a file)
write_tables ==
    /\ gen_pc = "write"
    /\ \E fp \in (IF process THEN BOOLEAN ELSE {TRUE}) :
          /\ written' = (process /\ fp)
          /\ exitcode' = IF fp THEN 0 ELSE 1
          /\ stderr' = IF fp THEN stderr ELSE Append(stderr, FileError("can't create"))
    /\ gen_pc' = "exit"
    /\ UNCHANGED <<grammar, options, semerrors, productions, collection, first, lrstates,
                   gen_i, process, errortoken>>
    /\ UNCHANGED nongenvars

\* the start of main: the input file cannot be opened
cannot_open ==
    /\ gen_pc = "parse"
    /\ stderr' = Append(stderr, FileError("can't open"))
    /\ exitcode' = 1
    /\ gen_pc' = "exit"
    /\ UNCHANGED <<grammar, options, semerrors, productions, collection, first, lrstates,
                   gen_i, process, errortoken, written>>
    /\ UNCHANGED nongenvars

\* the grammars the generator is run on
Grammars ==
    {GrammarNest, GrammarRR, GrammarLR1, GrammarExpr, GrammarOrder, GrammarElse,
     GrammarJuxta, GrammarTail, GrammarUndef, GrammarLoop, GrammarSplit,
     GrammarMask, GrammarCycle, GrammarTwice, GrammarChain}

InitGenerate ==
    /\ PkIdle
    /\ DrvIdle
    /\ SetIdle
    /\ gen_pc = "parse"
    /\ \/ /\ grammar \in Grammars
          /\ options \in SUBSET {ERRORREPAIR, DEFAULTREDUCE, AMBIGUOUS, SPLITSTATES}
          /\ process \in BOOLEAN
       \/ /\ grammar \in { WithAttrs(g, a1, a2) :
                             g \in {GrammarExpr, GrammarElse, GrammarTail, GrammarMask},
                             a1 \in TokenAttrs, a2 \in TokenAttrs }
          /\ options \in {{AMBIGUOUS}, {AMBIGUOUS, DEFAULTREDUCE}}
          /\ process = TRUE
       \/ /\ grammar \in { [GrammarNest EXCEPT !.flaws = f, !.scanok = s] :
                             f \in SUBSET ScannerFlaws, s \in BOOLEAN }
          /\ options = {}
          /\ process = TRUE
    /\ semerrors = {} /\ productions = <<>> /\ collection = <<>> /\ first = <<>>
    /\ lrstates = <<>> /\ gen_i = 0 /\ stderr = <<>> /\ errortoken = <<>>
    /\ written = FALSE
    /\ exitcode = -1

NextGenerate ==
    \/ cannot_open
    \/ parser_tokens
    \/ main
    \/ generate_parser
    \/ create_gotos
    \/ compute_lookahead
    \/ build_table
    \/ finish_parser
    \/ write_tables

SpecGenerate == InitGenerate /\ [][NextGenerate]_vars

\* ---- views of the generated collection ----
\* the generation has reached the point where lookahead has been propagated
Propagated == gen_pc \in {"table", "write"} \/ (gen_pc = "exit" /\ collection # <<>>)

\* the rows of the table which have been built
Built == IF gen_pc = "table" THEN 1..(gen_i - 1)
         ELSE IF Propagated THEN 1..Len(collection) ELSE {}
(***************************************************************************)
(***************************************************************************)
(* The runtime driver: lib/parser.c                                        *)
(***************************************************************************)
(***************************************************************************)

\* parsing actions decoded from the table entries
ERROR == 0
SHIFT == 1
SHIFTREDUCE == 2
REDUCE == 3
ACCEPT == 4

\* what input_char returns at the end of the file
ENDFILE == 256

\* the character '\n'
NEWLINE == 10

\* the buffer of a location which points at no buffer
NULL == -1

\* the number of characters of one input buffer, standing for MAXBUFFER
\* (8192) of include/parser_definitions.h
MaxBuffer == 2

\* the number of characters of the longest input file
MaxInput == 4

(***************************************************************************)
(* Input buffers are allocated one after another and never reused while    *)
(* the chain is alive, so a bufferentry is named by its order: the buffer   *)
(* after b in the chain is b + 1, tables.bufferlist is the first buffer    *)
(* still allocated and tables.bufferend the last.  The entries of          *)
(* tables.buffers below tables.bufferlist are the freed ones; the driver   *)
(* itself never reads them again.                                          *)
(***************************************************************************)
Loc(b, o) == [buffer |-> b, offset |-> o]

\* a.buffer->order < b.buffer->order || a.buffer == b.buffer && a.offset < b.offset
Precedes(a, b) ==
    a.buffer < b.buffer \/ (a.buffer = b.buffer /\ a.offset < b.offset)

\* where.buffer->order as the message queue code reads it.  The order of a
\* buffer which has been freed is read from memory the allocator has taken
\* back: the read gives the old contents (t.garbage is FALSE) or what the
\* allocator has put there, a value greater than the order of every buffer
\* of the chain (t.garbage is TRUE)
Order(t, where) ==
    IF where.buffer # NULL /\ where.buffer < t.bufferlist /\ t.garbage
    THEN t.bufferend + 1
    ELSE where.buffer

\* Precedes as enqueue_error and write_line evaluate it on the point of a
\* message
Before(t, a, b) ==
    Order(t, a) < Order(t, b) \/ (a.buffer = b.buffer /\ a.offset < b.offset)

Top(stack) == stack[Len(stack)]

(***************************************************************************)
(* The scanner tables.  The characters of the input are 1 and 2, which are *)
(* the terminals of that number, the letter q (3), which may precede the   *)
(* character 1 as part of its token, the letter c (4), which no token      *)
(* begins with, newline and the end of the file.                           *)
(*   state 1   start: 1 -> 2, 2 -> 3, q -> 6, newline -> 5, ENDFILE -> 4   *)
(*   state 2   final, terminal 1        state 3   final, terminal 2        *)
(*   state 4   final, the sentinel      state 5   final, token ntokens,    *)
(*   state 6   after q: 1 -> 2                    which is ignored         *)
(* The rows are displaced as compress_scanner stores them: state 1 at base *)
(* 0 and state 6 at base 3; no state has a default state.  No token is     *)
(* installed.                                                              *)
(***************************************************************************)
LETTERQ == 3
LETTERC == 4

Scanner(tnumber, ntokens) ==
    [final |-> <<0, 1, 2, tnumber, ntokens, 0>>,
     sbase |-> <<0, 0, 0, 0, 0, 3>>,
     sdefault |-> <<0, 0, 0, 0, 0, 0>>,
     scheck |-> [i \in 0..(ENDFILE + 3) |->
                   IF i \in {1, 2, LETTERQ, NEWLINE, ENDFILE} THEN 1
                   ELSE IF i = 3 + 1 THEN 6 ELSE 0],
     snext |-> [i \in 0..(ENDFILE + 3) |->
                  CASE i = 1 -> 2 [] i = 2 -> 3 [] i = LETTERQ -> 6
                    [] i = NEWLINE -> 5 [] i = ENDFILE -> 4
                    [] i = 3 + 1 -> 2 [] OTHER -> 0]]

(***************************************************************************)
(* The parser tables the generator writes for                              *)
(*     <Goal> -> <S> $ ;    <S> -> "y" <L> @1 ;                            *)
(*     <L> -> <L> "x" @2 | "x" @3 ;                                        *)
(* with the terminals x = 1, y = 2, $ = 3 and the nonterminals <Goal> = 4, *)
(* <S> = 5, <L> = 6.                                                       *)
(*   state 1   . <S> $           y shift 2, <S> shift 3, <Goal> accept     *)
(*   state 2   "y" . <L>         x shiftreduce 4, <L> shift 4              *)
(*   state 3   <S> . $           $ shiftreduce 1                           *)
(*   state 4   "y" <L> .  and  <L> . "x"                                   *)
(*                               x shiftreduce 3, $ reduce 2               *)
(* Each row of the uncompressed table is stored at a base of its own.      *)
(***************************************************************************)
DriverRows ==
    << <<0, SHIFT_OFFSET + 2, 0, ACCEPT_OFFSET, SHIFT_OFFSET + 3, 0>>,
       <<4, 0, 0, 0, 0, SHIFT_OFFSET + 4>>,
       <<0, 0, 1, 0, 0, 0>>,
       <<3, 0, -2, 0, 0, 0>> >>

\* pbase, pcheck and pnext of the rows
ParserRows(rows) ==
    LET width == Len(rows[1])
        cells == 1..(Len(rows) * width)
        row(i) == ((i - 1) \div width) + 1
        col(i) == ((i - 1) % width) + 1
    IN  [pbase |-> [s \in 1..Len(rows) |-> (s - 1) * width],
         pcheck |-> [i \in cells |-> IF rows[row(i)][col(i)] # 0 THEN row(i) ELSE 0],
         pnext |-> [i \in cells |-> rows[row(i)][col(i)]]]

\* reports[n] tells what the caller's semantic routine does when it is
\* called with the number n: 0, it reports nothing; k > 0, it reports an
\* error at the location of the entry PARSTACK(PARCOUNT - k), as the
\* semantic routine of sdtgen does for a string without its close quote
DriverTable(repair, context, defcost, reports) ==
    [name |-> "xy", ntokens |-> 4, tnumber |-> 3, ntnumber |-> 3,
     context |-> context, defcost |-> defcost,
     inscost |-> <<1, 1, (MAXCOST + 1) \div 2 - 1>>,
     delcost |-> <<1, 1, MAXCOST>>,
     lhsymbol |-> <<4, 5, 6, 6>>,
     rhslength |-> <<2, 2, 2, 1>>,
     semantics |-> <<0, 1, 2, 3>>,
     reports |-> reports,
     repair |-> repair,
     parser |-> ParserRows(DriverRows),
     scanner |-> Scanner(3, 4)]

(***************************************************************************)
(* The parser tables the generator writes for                              *)
(*     <Goal> -> <S> $ ;    <S> -> "a" <S> "b" | "" ;                      *)
(* with ERRORREPAIR, which sorts the productions: 1 is <Goal> -> <S> $,    *)
(* 2 is <S> -> "" and 3 is <S> -> "a" <S> "b".  The terminals are a = 1,   *)
(* b = 2, "" = 3, $ = 4 and the nonterminals <Goal> = 5, <S> = 6.          *)
(*   state 1   a shift 2, $ reduce 2, <Goal> accept, <S> shift 3           *)
(*   state 2   a shift 2, b reduce 2, <S> shift 4                          *)
(*   state 3   $ shift 5               state 4   b shift 6                 *)
(*   state 5   $ reduce 1              state 6   b reduce 3, $ reduce 3    *)
(* With SHIFTREDUCE the states 5 and 6 are not created, state 3 has        *)
(* $ shiftreduce 1 and state 4 has b shiftreduce 3.                        *)
(***************************************************************************)
NestRows ==
    << <<SHIFT_OFFSET + 2, 0, 0, -2, ACCEPT_OFFSET, SHIFT_OFFSET + 3>>,
       <<SHIFT_OFFSET + 2, -2, 0, 0, 0, SHIFT_OFFSET + 4>>,
       <<0, 0, 0, SHIFT_OFFSET + 5, 0, 0>>,
       <<0, SHIFT_OFFSET + 6, 0, 0, 0, 0>>,
       <<0, 0, 0, -1, 0, 0>>,
       <<0, -3, 0, -3, 0, 0>> >>

NestRowsShiftReduce ==
    << <<SHIFT_OFFSET + 2, 0, 0, -2, ACCEPT_OFFSET, SHIFT_OFFSET + 3>>,
       <<SHIFT_OFFSET + 2, -2, 0, 0, 0, SHIFT_OFFSET + 4>>,
       <<0, 0, 0, 1, 0, 0>>,
       <<0, 3, 0, 0, 0, 0>> >>

NestTable(rows, repair, context, defcost) ==
    [name |-> "nest", ntokens |-> 5, tnumber |-> 4, ntnumber |-> 2,
     context |-> context, defcost |-> defcost,
     inscost |-> <<1, 1, 1, (MAXCOST + 1) \div 2 - 1>>,
     delcost |-> <<1, 1, 1, MAXCOST>>,
     lhsymbol |-> <<5, 6, 6>>,
     rhslength |-> <<2, 0, 3>>,
     semantics |-> <<0, 0, 0>>,
     reports |-> <<>>,
     repair |-> repair,
     parser |-> ParserRows(rows),
     scanner |-> Scanner(4, 5)]

(***************************************************************************)
(* The parser tables of                                                    *)
(*     <Goal> -> <S> $ ;    <S> -> <T> <C> ;    <T> -> <A> <B> ;           *)
(*     <A> -> "a" ;    <B> -> <D> ;    <D> -> "" ;    <C> -> "" | "b" ;    *)
(* with the productions numbered 1 to 8 in this order, the terminals       *)
(* a = 1, b = 2, "" = 3, $ = 4 and the nonterminals <Goal> = 5, <S> = 6,   *)
(* <T> = 7, <A> = 8, <B> = 9, <D> = 10, <C> = 11.  Its empty productions   *)
(* and <B> -> <D> are reduced after other reduces have been queued.        *)
(*   state 1   a shiftreduce 4, <Goal> accept, <S> shift 4, <T> shift 3,   *)
(*             <A> shift 2                                                 *)
(*   state 2   <A> . <B>         b reduce 6, $ reduce 6, <D> shiftreduce 5, *)
(*                               <B> shiftreduce 3                         *)
(*   state 3   <T> . <C>         b shiftreduce 8, $ reduce 7,              *)
(*                               <C> shiftreduce 2                         *)
(*   state 4   <S> . $           $ shiftreduce 1                           *)
(***************************************************************************)
OptRows ==
    << <<4, 0, 0, 0, ACCEPT_OFFSET, SHIFT_OFFSET + 4, SHIFT_OFFSET + 3,
         SHIFT_OFFSET + 2, 0, 0, 0>>,
       <<0, -6, 0, -6, 0, 0, 0, 0, 3, 5, 0>>,
       <<0, 8, 0, -7, 0, 0, 0, 0, 0, 0, 2>>,
       <<0, 0, 0, 1, 0, 0, 0, 0, 0, 0, 0>> >>

OptTable(repair, context, defcost) ==
    [name |-> "opt", ntokens |-> 5, tnumber |-> 4, ntnumber |-> 7,
     context |-> context, defcost |-> defcost,
     inscost |-> <<1, 1, 1, (MAXCOST + 1) \div 2 - 1>>,
     delcost |-> <<1, 1, 1, MAXCOST>>,
     lhsymbol |-> <<5, 6, 7, 8, 9, 10, 11, 11>>,
     rhslength |-> <<2, 2, 2, 1, 1, 0, 0, 1>>,
     semantics |-> <<0, 1, 2, 3, 4, 5, 6, 7>>,
     reports |-> <<0, 0, 0, 0, 0, 0, 0>>,
     repair |-> repair,
     parser |-> ParserRows(OptRows),
     scanner |-> Scanner(4, 5)]

\* the tables of the first grammar for an input file which declares
\* INSERT = 100000 for both terminals and DELETE = 2147483647 for "y":
\* the semantic routine of the generator accepts costs up to INT_MAX
CostlyTable ==
    [DriverTable(<<2, 1, 3, -2>>, 0, 0, <<0, 0, 0>>) EXCEPT
        !.inscost = <<MAXCOST + 1, MAXCOST + 1, (MAXCOST + 1) \div 2 - 1>>,
        !.delcost = <<1, INT_MAX, MAXCOST>>]

\* without ERRORREPAIR the repair table is empty; with it, every state has
\* the token or the reduce which leads to the end of the input soonest
DriverTables ==
    {DriverTable(<<0, 0, 0, 0>>, 0, 0, <<0, 0, 0>>)}
      \cup {DriverTable(<<2, 1, 3, -2>>, c, IF c = 0 THEN 0 ELSE 2, <<0, 0, 0>>) :
              c \in 0..2}
      \cup {DriverTable(<<2, 1, 3, -2>>, 0, 0, <<2, 0, 1>>)}
      \cup {NestTable(NestRows, <<-2, -2, 4, 2, -1, -3>>, c, IF c = 0 THEN 0 ELSE 2) :
              c \in 0..1}
      \cup {NestTable(NestRowsShiftReduce, <<-2, -2, 4, 2>>, 0, 0)}
      \cup {OptTable(<<0, 0, 0, 0>>, 0, 0), OptTable(<<1, -6, -7, 4>>, 0, 0)}

\* the input files: every text of at most MaxInput characters, which a
\* read() returns a whole buffer or one character at a time.  The files
\* for the first grammar have several lines
InputFiles(table) ==
    {[text |-> s, readsize |-> r] :
        s \in UNION {[1..n -> IF table.name = "xy" THEN {1, 2, LETTERQ, NEWLINE}
                              ELSE {1, 2, LETTERC}] : n \in 0..MaxInput},
        r \in {1, MaxBuffer}}

(***************************************************************************)
(* Table lookup                                                            *)
(***************************************************************************)
\* the action and *entry; *entry is left alone when the action is ERROR
decode_action(state, token) ==
    LET i == ptables.parser.pbase[state] + token
        next == ptables.parser.pnext[i]
    IN  IF ptables.parser.pcheck[i] = state
        THEN IF next < 0 THEN [action |-> REDUCE, entry |-> -next]
             ELSE IF next > SHIFT_OFFSET
                  THEN [action |-> SHIFT, entry |-> next - SHIFT_OFFSET]
                  ELSE [action |-> SHIFTREDUCE, entry |-> next]
        ELSE [action |-> ERROR, entry |-> 0]

decode_goto(state, token) ==
    LET next == ptables.parser.pnext[ptables.parser.pbase[state] + token]
    IN  IF next > SHIFT_OFFSET THEN [action |-> SHIFT, entry |-> next - SHIFT_OFFSET]
        ELSE IF next > 0 THEN [action |-> SHIFTREDUCE, entry |-> next]
        ELSE [action |-> ACCEPT, entry |-> 0]

(***************************************************************************)
(* Input                                                                   *)
(***************************************************************************)
MinOf(a, b) == IF a < b THEN a ELSE b

\* read more data into the buffer chain: the tables, *where and whether
\* another character is available.  read() returns up to infile.readsize
\* characters of what remains of the file
read_buffer(t, where) ==
    IF where.buffer < t.bufferend
    THEN [t |-> t, where |-> Loc(where.buffer + 1, 0),
          more |-> 0 < t.buffers[where.buffer + 1].count]
    ELSE IF ~t.endfile
    THEN LET full == t.buffers[where.buffer].count >= MaxBuffer
             Stored(t2, w1) ==
                 [t |-> t2, where |-> w1, more |-> w1.offset < t2.buffers[w1.buffer].count]
             Read(t1, w1) ==
                 LET n == MinOf(infile.readsize,
                                MinOf(MaxBuffer - t1.buffers[t1.bufferend].count,
                                      Len(infile.text) - t1.inputfd))
                 IN  Stored(IF n > 0
                            THEN [t1 EXCEPT !.buffers[t1.bufferend] =
                                      [count |-> @.count + n,
                                       buffer |-> @.buffer \o
                                          SubSeq(infile.text, t1.inputfd + 1, t1.inputfd + n)],
                                   !.inputfd = @ + n]
                            ELSE [t1 EXCEPT !.endfile = TRUE],
                            w1)
         IN  Read(IF full
                  THEN [t EXCEPT !.buffers =
                                    [o \in 0..(t.bufferend + 1) |->
                                       IF o <= t.bufferend THEN t.buffers[o]
                                       ELSE [count |-> 0, buffer |-> <<>>]],
                                 !.bufferend = t.bufferend + 1]
                  ELSE t,
                  IF full THEN Loc(t.bufferend + 1, 0) ELSE where)
    ELSE [t |-> t, where |-> where,
          more |-> where.offset < t.buffers[where.buffer].count]

\* the next character of the input, the tables and *where; r is what
\* read_buffer returned, or the position as it is when no read was needed
input_char(t) ==
    LET Fetched(r) ==
            LET at == r.where
                ch == r.t.buffers[at.buffer].buffer[at.offset + 1]
            IN  IF ~r.more
                THEN [t |-> [r.t EXCEPT !.position = at, !.beginning = at],
                      ch |-> ENDFILE, where |-> at]
                ELSE [t |-> [r.t EXCEPT !.position = Loc(at.buffer, at.offset + 1),
                                        !.beginning = IF r.t.newline THEN at ELSE @,
                                        !.newline = (ch = NEWLINE)],
                      ch |-> ch, where |-> at]
    IN  Fetched(IF t.position.offset >= t.buffers[t.position.buffer].count
                THEN read_buffer(t, t.position)
                ELSE [t |-> t, where |-> t.position, more |-> TRUE])

\* the search through the default state chain of the scanner for a
\* transition on ch: the next state, 0 when there is none
RECURSIVE Transition(_, _)
Transition(state, ch) ==
    LET i == ptables.scanner.sbase[state] + ch
    IN  IF ptables.scanner.scheck[i] = state THEN ptables.scanner.snext[i]
        ELSE IF ptables.scanner.sdefault[state] # 0
        THEN Transition(ptables.scanner.sdefault[state], ch)
        ELSE 0

\* the do loop of input_token: run through the automaton from state with
\* the character ch read at where, until no transition is possible.  final
\* is the last final state met (-1 for none) and tokenend the position at
\* which its token ends
RECURSIVE Automaton(_, _, _, _, _, _)
Automaton(t, state, ch, where, final, tokenend) ==
    LET isfinal == ptables.scanner.final[state] # 0
        Read(c, next) ==
            Automaton(c.t, next, c.ch, c.where,
                      IF isfinal THEN state ELSE final,
                      IF isfinal THEN where ELSE tokenend)
        Moved(next) ==
            IF next = 0
            THEN [t |-> t, final |-> IF isfinal THEN state ELSE final,
                  tokenend |-> IF isfinal THEN where ELSE tokenend]
            ELSE Read(input_char(t), next)
    IN  Moved(Transition(state, ch))

\* a message: the text of a syntax or semantic error, or the tokens of a
\* repair; the scanner's errors have no message
Text(kind) == [kind |-> kind, deleted |-> <<>>, inserted |-> <<>>]

NoMessage == Text("")

\* the for loop of enqueue_error: the number of messages which stay in
\* front of the new one
RECURSIVE InsertIndex(_, _, _)
InsertIndex(t, point, i) ==
    IF i > 0 /\ (\/ Order(t, t.msgqueue[i].point) > Order(t, point)
                 \/ /\ Order(t, t.msgqueue[i].point) = Order(t, point)
                    /\ t.msgqueue[i].point.offset > point.offset)
    THEN InsertIndex(t, point, i - 1)
    ELSE i

\* the position after where: where.offset++, and on to the next buffer at
\* the end of this one
Adjacent(t, where) ==
    IF where.offset + 1 >= t.buffers[where.buffer].count
    THEN Loc(where.buffer + 1, 0)
    ELSE Loc(where.buffer, where.offset + 1)

\* insert the message at the correct point in the queue; a scanner error
\* next to the scanner error at the end of the queue is appended to it
enqueue_error(t, point, message) ==
    LET q == t.msgqueue
        n == Len(q)
        i == InsertIndex(t, point, n)
    IN  IF /\ n > 0
           /\ message = NoMessage
           /\ q[n].message = NoMessage
           /\ point = Adjacent(t, q[n].last)
        THEN [t EXCEPT !.msgqueue[n].last = point]
        ELSE [t EXCEPT !.msgqueue =
                SubSeq(q, 1, i)
                  \o <<[point |-> point, last |-> point, message |-> message]>>
                  \o SubSeq(q, i + 1, n)]

\* record_error which enqueues no scanner error
record_error_formatted_only(t, point, message) ==
    IF message = NoMessage THEN t ELSE enqueue_error(t, point, message)

record_error(t, point, message) == enqueue_error(t, point, message)

\* input_token which scans on behind the last character read after a
\* scanner error
RECURSIVE input_token_no_restart(_)
input_token_no_restart(t) ==
    LET Scanned(c, s) ==
            IF s.final < 0
            THEN input_token_no_restart(record_error(s.t, c.where, NoMessage))
            ELSE IF ptables.scanner.final[s.final] <= ptables.tnumber
            THEN [s.t EXCEPT !.position = s.tokenend,
                             !.tknqueue =
                                Append(@, [token |-> ptables.scanner.final[s.final],
                                           locus |-> c.t.beginning,
                                           where |-> c.where])]
            ELSE input_token_no_restart([s.t EXCEPT !.position = s.tokenend])
        Begun(c) == Scanned(c, Automaton(c.t, 1, c.ch, c.where, -1, c.where))
    IN  Begun(input_char(t))

\* get the next token from the input file.  When the automaton has met no
\* final state a lexical error is recorded, one character is skipped and
\* the scanner looks for a token again; an ignored token is skipped
RECURSIVE input_token(_)
input_token(t) ==
    LET Scanned(c, s) ==
            IF s.final < 0
            THEN input_token([record_error(s.t, c.where, NoMessage)
                                EXCEPT !.position =
                                          Loc(c.where.buffer, c.where.offset + 1)])
            ELSE IF ptables.scanner.final[s.final] <= ptables.tnumber
            THEN [s.t EXCEPT !.position = s.tokenend,
                             !.tknqueue =
                                Append(@, [token |-> ptables.scanner.final[s.final],
                                           locus |-> c.t.beginning,
                                           where |-> c.where])]
            ELSE input_token([s.t EXCEPT !.position = s.tokenend])
        Begun(c) == Scanned(c, Automaton(c.t, 1, c.ch, c.where, -1, c.where))
    IN  Begun(input_char(t))

\* while (TKNCOUNT < number) input_token(tables)
RECURSIVE Fill(_, _)
Fill(t, number) ==
    IF Len(t.tknqueue) < number THEN Fill(input_token(t), number) ELSE t

(***************************************************************************)
(* Messages                                                                *)
(***************************************************************************)
\* the for (;;) loop of write_line: the start of the next line or EOF
RECURSIVE NextLine(_, _)
NextLine(t, nextline) ==
    LET Moved(r2) == [t |-> r2.t, nextline |-> r2.where]
        Found(r) ==
            LET ch == r.t.buffers[r.where.buffer].buffer[r.where.offset + 1]
                after == Loc(r.where.buffer, r.where.offset + 1)
            IN  IF ~r.more THEN [t |-> r.t, nextline |-> r.where]
                ELSE IF ch = NEWLINE
                     THEN IF after.offset >= r.t.buffers[after.buffer].count
                          THEN Moved(read_buffer(r.t, after))
                          ELSE [t |-> r.t, nextline |-> after]
                     ELSE NextLine(r.t, after)
    IN  Found(IF nextline.offset >= t.buffers[nextline.buffer].count
              THEN read_buffer(t, nextline)
              ELSE [t |-> t, where |-> nextline, more |-> TRUE])

\* the messages at the head of the queue which lie before nextline
RECURSIVE OnLine(_, _, _)
OnLine(t, nextline, k) ==
    IF k < Len(t.msgqueue) /\ Before(t, t.msgqueue[k + 1].point, nextline)
    THEN OnLine(t, nextline, k + 1)
    ELSE k

\* skip over or write the line beginning at tables->unwritten, then free
\* the input buffers which precede the first unwritten line.  Of the
\* output only the messages are kept, with the number of their line
write_line(t) ==
    LET u == t.unwritten
        Written(n) ==
            LET t1 == n.t
                shown == t1.listing
                           \/ (Len(t1.msgqueue) > 0
                                 /\ Before(t1, t1.msgqueue[1].point, n.nextline))
                nextline == IF shown /\ ~(u.offset < t1.buffers[u.buffer].count)
                            THEN Loc(n.nextline.buffer, n.nextline.offset + 1)
                            ELSE n.nextline
                Output(k) ==
                    [t1 EXCEPT !.lineno = @ + 1,
                               !.stdout = @ \o [j \in 1..k |->
                                                  [lineno |-> t1.lineno + 1,
                                                   point |-> t1.msgqueue[j].point,
                                                   last |-> t1.msgqueue[j].last,
                                                   message |-> t1.msgqueue[j].message]],
                               !.msgqueue = SubSeq(@, k + 1, Len(@)),
                               !.msgwritten = IF k > 0 THEN TRUE
                                              ELSE IF shown THEN FALSE ELSE @,
                               !.unwritten = nextline,
                               !.bufferlist = nextline.buffer]
            IN  Output(IF shown THEN OnLine(t1, nextline, 0) ELSE 0)
    IN  Written(IF u.offset >= t.buffers[u.buffer].count
                THEN [t |-> t, nextline |-> Loc(u.buffer, t.buffers[u.buffer].count + 1)]
                ELSE NextLine(t, u))

\* while (unwritten is before locus) write_line(tables); error_value also
\* writes the line of locus itself
RECURSIVE WriteLines(_, _, _)
WriteLines(t, locus, through) ==
    IF Precedes(t.unwritten, locus) \/ (through /\ t.unwritten = locus)
    THEN WriteLines(write_line(t), locus, through)
    ELSE t

\* while (MSGCOUNT) write_line(tables).  Past the end of the file
\* write_line leaves unwritten where it is, so a message which it does not
\* find on a line then stays in the queue and the loop does not end
RECURSIVE FlushMessages(_)
FlushMessages(t) ==
    IF Len(t.msgqueue) = 0 THEN [t |-> t, ends |-> TRUE]
    ELSE IF /\ t.unwritten.offset > t.buffers[t.unwritten.buffer].count
            /\ ~Before(t, t.msgqueue[1].point, t.unwritten)
    THEN [t |-> t, ends |-> FALSE]
    ELSE FlushMessages(write_line(t))

(***************************************************************************)
(* Reduces                                                                 *)
(***************************************************************************)
\* perform the queued reduces from entry i on.  (*tables->action) is the
\* caller's semantic routine: what the model keeps of it is that it was
\* called, and with which semantic routine number
\* (*tables->action)(tables, semantic): what the model keeps of the
\* caller's semantic routine is that it was called, with which number, and
\* the error it reports
SemanticAction(t, semantic) ==
    IF ptables.reports[semantic] > 0
    THEN record_error([t EXCEPT !.performed = Append(@, semantic)],
                      t.parstack[Len(t.parstack) + 1 - ptables.reports[semantic]].where,
                      Text("Semantic error"))
    ELSE [t EXCEPT !.performed = Append(@, semantic)]

\* PerformFrom which removes the right hand side before the semantic
\* routine is called
RECURSIVE PerformFromPopped(_, _, _)
PerformFromPopped(t, where, i) ==
    IF i > Len(t.redqueue) THEN [t EXCEPT !.redqueue = <<>>]
    ELSE LET r == t.redqueue[i]
             Pushed(t1) ==
                 PerformFromPopped([t1 EXCEPT !.parstack =
                                      Append(@, [state |-> r.state, where |-> where,
                                                 token |-> ptables.lhsymbol[r.number]])],
                                   where, i + 1)
             Popped(t1) ==
                 Pushed(IF ptables.semantics[r.number] # 0
                        THEN SemanticAction(t1, ptables.semantics[r.number])
                        ELSE t1)
         IN  Popped([t EXCEPT !.parstack = SubSeq(@, 1, MinOf(Len(@), r.pointer))])

RECURSIVE PerformFrom(_, _, _)
PerformFrom(t, where, i) ==
    IF i > Len(t.redqueue) THEN [t EXCEPT !.redqueue = <<>>]
    ELSE LET r == t.redqueue[i]
             Popped(t1) ==
                 PerformFrom([t1 EXCEPT !.parstack =
                                Append(SubSeq(@, 1, MinOf(Len(@), r.pointer)),
                                       [state |-> r.state, where |-> where,
                                        token |-> ptables.lhsymbol[r.number]])],
                             where, i + 1)
         IN  Popped(IF ptables.semantics[r.number] # 0
                    THEN SemanticAction(t, ptables.semantics[r.number])
                    ELSE t)

perform_reduces(t, where) == PerformFrom(t, where, 1)

\* RecentReduce which searches the queue from its front: the oldest queued
\* reduce which popped the stack to pointer or below
RecentReduce_oldest(q, pointer, i) ==
    IF \E k \in 1..i : q[k].pointer <= pointer
    THEN CHOOSE k \in 1..i :
            /\ q[k].pointer <= pointer
            /\ \A j \in 1..(k - 1) : q[j].pointer > pointer
    ELSE 0

\* the for loop of the search of the reduce queue: the most recent queued
\* reduce which popped the stack to pointer or below, 0 when the loop has
\* run to before the queue
RECURSIVE RecentReduce(_, _, _)
RecentReduce(q, pointer, i) ==
    IF i >= 1 /\ q[i].pointer > pointer THEN RecentReduce(q, pointer, i - 1) ELSE i

\* the do loop of case REDUCE: queue the reduce by production entry and the
\* shiftreduces of the left hand sides which follow it.  p is the local
\* variables of parse_input; t.queued is the history of the queue, every
\* production which has ever been put into it, and t.searches the history
\* of the searches of the queue: the pointer searched for, the entry i at
\* which the for loop has stopped (0 is before the queue) and the pointer
\* of that entry
RECURSIVE QueueReduces(_, _, _)
QueueReduces(t, p, entry) ==
    LET popped == p.pointer - ptables.rhslength[entry]
        knownptr == MinOf(popped, p.knownptr)
        Queued(g, i) ==
            LET state == IF g.action = SHIFT THEN g.entry ELSE 0
                t1 == [t EXCEPT !.redqueue =
                                   Append(@, [number |-> entry, pointer |-> popped + 1,
                                              state |-> state]),
                                !.queued = Append(@, entry),
                                !.searches =
                                   IF popped > knownptr
                                   THEN Append(@, [pointer |-> popped, index |-> i,
                                                   found |-> IF i >= 1
                                                             THEN t.redqueue[i].pointer
                                                             ELSE NULL])
                                   ELSE @]
                p1 == [p EXCEPT !.state = state,
                                !.pointer = popped + 1,
                                !.knownptr = knownptr,
                                !.action = g.action]
            IN  IF g.action = SHIFTREDUCE THEN QueueReduces(t1, p1, g.entry)
                ELSE [t |-> t1, parse |-> p1]
        Uncovered(i) ==
            Queued(decode_goto(IF popped > knownptr
                               THEN IF i >= 1 /\ t.redqueue[i].pointer = popped
                                    THEN t.redqueue[i].state
                                    ELSE p.state
                               ELSE t.parstack[popped + 1].state,
                               ptables.lhsymbol[entry]),
                   i)
    IN  Uncovered(RecentReduce(t.redqueue, popped, Len(t.redqueue)))

(***************************************************************************)
(* Error repair                                                            *)
(***************************************************************************)
\* do { pop the right hand side, goto on the left hand side, push }
\* while (action == SHIFTREDUCE), on a stack of states: the loop which
\* build_continuation, error_value and look_ahead each contain
RECURSIVE ReduceChain(_, _)
ReduceChain(stack, entry) ==
    LET popped == SubSeq(stack, 1, Len(stack) - ptables.rhslength[entry])
        Pushed(g) ==
            IF g.action = SHIFTREDUCE THEN ReduceChain(Append(popped, g.entry), g.entry)
            ELSE [stack |-> Append(popped, g.entry), action |-> g.action]
    IN  Pushed(decode_goto(Top(popped), ptables.lhsymbol[entry]))

\* error_value: terminal i, which signals the reduce by entry, is shifted
\* (or the input accepted) by parsing forward
RECURSIVE ShiftsAfter(_, _, _)
ShiftsAfter(stack, entry, i) ==
    LET Reduced(r) ==
            LET d == decode_action(Top(r.stack), i)
            IN  IF r.action = ACCEPT THEN TRUE
                ELSE IF d.action = REDUCE THEN ShiftsAfter(r.stack, d.entry, i)
                ELSE d.action \in {SHIFT, SHIFTREDUCE}
    IN  Reduced(ReduceChain(stack, entry))

\* Legal which takes a token with a reduce action for legal without the
\* check that the token is shifted after the reduces
Legal_unchecked(lcl, i) ==
    decode_action(Top(lcl), i).action \in {SHIFT, SHIFTREDUCE, REDUCE}

\* error_value: terminal i is legal at the current point of the continuation
Legal(lcl, i) ==
    LET d == decode_action(Top(lcl), i)
    IN  \/ d.action \in {SHIFT, SHIFTREDUCE}
        \/ d.action = REDUCE /\ ShiftsAfter(lcl, d.entry, i)

\* error_value which adds no insertion cost to the continuation
error_value_no_cost(lcl, ins, followset) ==
    LET value == ptables.repair[Top(lcl)]
        last == Len(ins)
        fs == IF ins[last].known THEN followset
              ELSE [i \in DOMAIN followset |->
                      IF i >= 1 /\ followset[i] < 0 /\ Legal(lcl, i)
                      THEN last - 1 ELSE followset[i]]
        known == [ins EXCEPT ![last].known = TRUE]
    IN  [value |-> value,
         insertion |-> IF value > 0
                       THEN Append(known, [token |-> value,
                                           cost |-> known[last].cost,
                                           known |-> FALSE])
                       ELSE known,
         followset |-> fs]

\* the next value of the error repair table for the local stack lcl, with
\* the continuation string (INSERTION(k) is ins[k + 1]) and the followset
\* it leaves; the value 0 is the fatal syntax error, see FatalError
error_value(lcl, ins, followset) ==
    LET value == ptables.repair[Top(lcl)]
        last == Len(ins)
        fs == IF ins[last].known THEN followset
              ELSE [i \in DOMAIN followset |->
                      IF i >= 1 /\ followset[i] < 0 /\ Legal(lcl, i)
                      THEN last - 1 ELSE followset[i]]
        known == [ins EXCEPT ![last].known = TRUE]
    IN  [value |-> value,
         insertion |-> IF value > 0
                       THEN Append(known, [token |-> value,
                                           cost |-> known[last].cost + ptables.inscost[value],
                                           known |-> FALSE])
                       ELSE known,
         followset |-> fs]

\* FatalError which writes the lines and records no message
FatalError_unrecorded(t) == WriteLines(t, t.tknqueue[1].locus, TRUE)

\* error_value when the repair table has no value for the state: record a
\* fatal syntax error and write the current line; the caller exits
FatalError(t) ==
    WriteLines(record_error(t, t.tknqueue[1].where, Text("Syntax error")),
               t.tknqueue[1].locus, TRUE)

\* the do loop of build_continuation
RECURSIVE Continuation(_, _, _)
Continuation(lcl, ins, followset) ==
    LET Advanced(e, r) ==
            IF r.action = ACCEPT
            THEN [fatal |-> FALSE, insertion |-> e.insertion, followset |-> e.followset]
            ELSE Continuation(r.stack, e.insertion, e.followset)
        Decoded(e, d) ==
            Advanced(e, IF d.action \in {SHIFTREDUCE, REDUCE}
                        THEN ReduceChain(IF d.action = SHIFTREDUCE
                                         THEN Append(lcl, d.entry) ELSE lcl,
                                         d.entry)
                        ELSE [stack |-> IF d.action = SHIFT
                                        THEN Append(lcl, d.entry) ELSE lcl,
                              action |-> d.action])
        Valued(e) ==
            IF e.value = 0
            THEN [fatal |-> TRUE, insertion |-> ins, followset |-> followset]
            ELSE Decoded(e, IF e.value < 0 THEN [action |-> REDUCE, entry |-> -e.value]
                            ELSE decode_action(Top(lcl), e.value))
    IN  Valued(error_value(lcl, ins, followset))

\* create the continuation string and its followset values
build_continuation(errstack) ==
    Continuation(errstack, <<[token |-> 0, cost |-> 0, known |-> FALSE]>>,
                 [i \in 0..ptables.tnumber |-> -1])

\* the do loop of look_ahead: the number of tokens of chk which remain when
\* the parse finds an error, from token i on
RECURSIVE ParseAhead(_, _, _)
ParseAhead(stack, chk, i) ==
    LET Chained(d, r) ==
            IF d.action = SHIFTREDUCE
            THEN IF i + 1 > Len(chk) \/ r.action = ACCEPT THEN 0
                 ELSE ParseAhead(r.stack, chk, i + 1)
            ELSE IF r.action = ACCEPT THEN 0 ELSE ParseAhead(r.stack, chk, i)
        Acted(d) ==
            IF d.action = ERROR THEN Len(chk) - (i - 1)
            ELSE IF d.action = SHIFT
            THEN IF i + 1 > Len(chk) THEN 0
                 ELSE ParseAhead(Append(stack, d.entry), chk, i + 1)
            ELSE Chained(d, ReduceChain(IF d.action = SHIFTREDUCE
                                        THEN Append(stack, d.entry) ELSE stack,
                                        d.entry))
    IN  Acted(decode_action(Top(stack), chk[i]))

\* parse ahead with a copy of the error stack: the tables, which read
\* ahead in the input, and the number of tokens left at an error
look_ahead(t, errstack, ins, token, prefix, number) ==
    LET Parsed(t1) ==
            [t |-> t1,
             left |-> ParseAhead(errstack,
                                 (IF token > 0 THEN <<token>> ELSE <<>>)
                                   \o [k \in 1..prefix |-> ins[k + 1].token]
                                   \o [k \in 1..number |-> t1.tknqueue[k].token],
                                 1)]
    IN  Parsed(Fill(t, number))

\* repair_error: the cheapest terminal which may be inserted to make the
\* next input token legal, from terminal token on; c is the continuation
RECURSIVE InsertSearch(_, _, _, _, _, _)
InsertSearch(t, errstack, c, delete, token, best) ==
    LET Costed(l1, l2) ==
            LET cost == delete + ptables.inscost[token]
                          + (IF ptables.context > 1
                             THEN (l2.left * ptables.defcost) \div ptables.context
                             ELSE 0)
            IN  InsertSearch(l2.t, errstack, c, delete, token + 1,
                             IF l1.left = 0 /\ cost < best.cost
                             THEN [token |-> token, prefix |-> -1, cost |-> cost]
                             ELSE best)
        Looked(l1) ==
            Costed(l1, IF l1.left = 0 /\ ptables.context > 1
                       THEN look_ahead(l1.t, errstack, c.insertion, token, 0,
                                       ptables.context)
                       ELSE [t |-> l1.t, left |-> 0])
    IN  IF token > ptables.tnumber THEN [t |-> t, insert |-> best]
        ELSE IF c.followset[token] = 0 /\ token # c.insertion[2].token
        THEN Looked(look_ahead(t, errstack, c.insertion, token, 0, 1))
        ELSE InsertSearch(t, errstack, c, delete, token + 1, best)

\* Better which also takes a candidate of the cost of the choice
Better_or_equal(insert, prefix, choice) ==
    insert.cost <= choice.cost \/ prefix.cost <= choice.cost

\* repair_error: either of the new repairs is cheaper than the least cost
\* repair so far
Better(insert, prefix, choice) ==
    insert.cost < choice.cost \/ prefix.cost < choice.cost

\* KeepLooking which stops at no cost
\* the int sum a + b of an int a and a cost b >= 0 exceeds INT_MAX
Overflows(a, b) == a > 0 /\ b > INT_MAX - a

\* a + b as an int: the sum, reduced modulo 2^32 when it exceeds INT_MAX
Sum32(a, b) == IF Overflows(a, b) THEN ((a - INT_MAX) + (b - INT_MAX)) - 2 ELSE a + b

\* repair_error: the cost of deleting up to the next token is less than the
\* cost of the best repair so far.  When the sum overflows the behaviour
\* is undefined: the comparison is made with the sum reduced modulo 2^32
\* (wraps) or with the sum itself
KeepLooking(wraps, delete, token, choice) ==
    IF Overflows(delete, ptables.delcost[token])
    THEN wraps /\ Sum32(delete, ptables.delcost[token]) < choice.cost
    ELSE delete + ptables.delcost[token] < choice.cost

\* the for (;;) loop of repair_error: search ahead trying different
\* corrections; scn is SCNSTACK and del is DELETION.  tried is the history
\* of the passes of the loop: the tokens scanned past, the two candidates
\* of the pass, and whether one of them has become the choice
RECURSIVE RepairSearch(_, _, _, _, _, _, _, _)
RepairSearch(t, errstack, c, choice, delete, scn, del, tried) ==
    LET Chosen(s, l) ==
            LET token == l.t.tknqueue[1].token
                fs == c.followset[token]
                prefix == IF fs >= 0
                          THEN [token |-> -1, prefix |-> fs,
                                cost |-> delete + c.insertion[fs + 1].cost
                                           + (IF ptables.context > 0
                                              THEN (l.left * ptables.defcost)
                                                     \div ptables.context
                                              ELSE 0)]
                          ELSE [token |-> -1, prefix |-> 0, cost |-> MAXCOST]
                better == Better(s.insert, prefix, choice)
                choice1 == IF better
                           THEN IF s.insert.cost <= prefix.cost THEN s.insert ELSE prefix
                           ELSE choice
                del1 == IF better THEN del \o scn ELSE del
                scn1 == IF better THEN <<>> ELSE scn
                tried1 == Append(tried, [scanned |-> [k \in 1..Len(del \o scn) |->
                                                       (del \o scn)[k].token],
                                         next |-> token, delete |-> delete,
                                         insert |-> s.insert, prefix |-> prefix,
                                         adopted |-> better])
            IN  IF KeepLooking(t.wraps, delete, token, choice1)
                THEN RepairSearch([l.t EXCEPT !.tknqueue = Tail(@)], errstack, c, choice1,
                                  Sum32(delete, ptables.delcost[token]),
                                  Append(scn1, l.t.tknqueue[1]), del1, tried1)
                ELSE [t |-> l.t, choice |-> choice1, scn |-> scn1, del |-> del1,
                      tried |-> tried1]
        Filled(s, t1) ==
            Chosen(s, IF c.followset[t1.tknqueue[1].token] >= 0 /\ ptables.context > 0
                      THEN look_ahead(t1, errstack, c.insertion, 0,
                                      c.followset[t1.tknqueue[1].token], ptables.context)
                      ELSE [t |-> t1, left |-> 0])
        Searched(s) == Filled(s, Fill(s.t, 1))
    IN  Searched(InsertSearch(t, errstack, c, delete, 1,
                              [token |-> -1, prefix |-> -1, cost |-> MAXCOST]))

\* record_repair: the end of the deleted tokens on the line of del[j - 1]
RECURSIVE LineEnd(_, _)
LineEnd(del, j) ==
    IF j <= Len(del) /\ del[j].locus = del[j - 1].locus THEN LineEnd(del, j + 1) ELSE j

\* the while loop of record_repair, from deleted token i on: the tables,
\* where, and the tokens of a replacement message which is not complete
RECURSIVE RecordDeletions(_, _, _, _, _)
RecordDeletions(t, del, insert, i, where) ==
    IF i > Len(del) THEN [t |-> t, where |-> where, replaced |-> <<>>]
    ELSE LET j == LineEnd(del, i + 1)
             tokens == [k \in 1..(j - i) |-> del[i + k - 1].token]
         IN  IF j <= Len(del) \/ insert = 0
             THEN RecordDeletions(
                      record_error(t, del[i].where,
                                   [kind |-> "Deleted:", deleted |-> tokens,
                                    inserted |-> <<>>]),
                      del, insert, j, del[i].where)
             ELSE [t |-> t, where |-> del[i].where, replaced |-> tokens]

\* report the error repair as one or more syntax errors
record_repair(t, del, ins, insert) ==
    LET inserted == [k \in 1..insert |-> ins[k + 1].token]
        Reported(d) ==
            IF insert = 0 THEN d.t
            ELSE record_error(d.t,
                              IF Len(del) = 0 THEN t.tknqueue[1].where ELSE d.where,
                              IF Len(del) = 0
                              THEN [kind |-> "Inserted:", deleted |-> <<>>,
                                    inserted |-> inserted]
                              ELSE [kind |-> "Replaced:", deleted |-> d.replaced,
                                    inserted |-> inserted])
    IN  Reported(RecordDeletions(t, del, insert, 1, Loc(NULL, 0)))

\* PutBack which puts the tokens scanned behind the token queue
PutBack_behind(scn, queue) == queue \o scn

\* repair_error: put the tokens scanned but not deleted back onto the input
\* stream
PutBack(scn, queue) == scn \o queue

\* the local copy of the states on the parse stack, with the queued reduces
\* performed until the parser is in a real state
RECURSIVE RealStack(_, _, _)
RealStack(stack, q, i) ==
    IF Top(stack) # 0 THEN stack
    ELSE RealStack(Append(SubSeq(stack, 1, q[i].pointer), q[i].state), q, i + 1)

\* determine the locally least-cost error repair for this syntax error: the
\* tables and whether the driver exits; t.repairs is the history of the
\* repairs made: what each has deleted and inserted, its cost, and the
\* number of tokens shifted before it, and t.tried the passes of the search
\* of each
repair_error(t) ==
    LET Recorded(r, next, ins, insert, t2) ==
            [t |-> [t2 EXCEPT !.tknqueue =
                       [k \in 1..insert |->
                          [token |-> ins[k + 1].token, locus |-> next.locus,
                           where |-> next.where]] \o @,
                              !.repairs =
                                 Append(@, [deleted |-> [k \in 1..Len(r.del) |->
                                                           r.del[k].token],
                                            inserted |-> [k \in 1..insert |->
                                                            ins[k + 1].token],
                                            cost |-> r.choice.cost,
                                            shifted |-> Len(t2.shifted)]),
                              !.tried = Append(@, r.tried)],
             exit |-> FALSE]
        Repaired(c, r) ==
            LET t1 == [r.t EXCEPT !.tknqueue = PutBack(r.scn, @)]
                next == t1.tknqueue[1]
                ins == IF r.choice.token > 0
                       THEN [c.insertion EXCEPT ![2].token = r.choice.token]
                       ELSE c.insertion
                insert == IF r.choice.token > 0 THEN 1 ELSE c.followset[next.token]
            IN  Recorded(r, next, ins, insert, record_repair(t1, r.del, ins, insert))
        Continued(errstack, c) ==
            IF c.fatal THEN [t |-> FatalError(t), exit |-> TRUE]
            ELSE Repaired(c, RepairSearch(t, errstack, c,
                                          [token |-> -1, prefix |-> -1, cost |-> MAXCOST],
                                          0, <<>>, <<>>, <<>>))
        Copied(errstack) == Continued(errstack, build_continuation(errstack))
    IN  Copied(RealStack([i \in 1..Len(t.parstack) |-> t.parstack[i].state],
                         t.redqueue, 1))

(***************************************************************************)
(* init_parser and parse_input                                             *)
(***************************************************************************)
\* if (!TKNCOUNT) input_token(tables)
NextToken(t) == IF Len(t.tknqueue) = 0 THEN input_token(t) ELSE t

\* the parsing action for the current state and token pair
Selected == decode_action(parse.state, NextToken(tables).tknqueue[1].token)

InLoop == drv_pc = "parse" /\ parse.action # ACCEPT

init_parser ==
    /\ drv_pc = "init"
    /\ \E garbage \in (IF \E n \in DOMAIN ptables.reports : ptables.reports[n] > 1
                       THEN BOOLEAN ELSE {FALSE}),
          wraps \in (IF \E n \in DOMAIN ptables.delcost :
                           ptables.delcost[n] > INT_MAX - MAXCOST
                     THEN BOOLEAN ELSE {FALSE}) :
          tables' = [inputfd |-> 0, listing |-> FALSE,
                     buffers |-> [o \in {0} |-> [count |-> 0, buffer |-> <<>>]],
                     bufferlist |-> 0, bufferend |-> 0, garbage |-> garbage,
                     wraps |-> wraps,
                     position |-> Loc(0, 0), newline |-> TRUE, endfile |-> FALSE,
                     lineno |-> 0, unwritten |-> Loc(0, 0), msgwritten |-> FALSE,
                     beginning |-> Loc(0, 0),
                     msgqueue |-> <<>>, parstack |-> <<>>, redqueue |-> <<>>,
                     tknqueue |-> <<>>,
                     stdout |-> <<>>, performed |-> <<>>, queued |-> <<>>,
                     repairs |-> <<>>, shifted |-> <<>>,
                     searches |-> <<>>, tried |-> <<>>]
    /\ drv_pc' = "begin"
    /\ UNCHANGED <<ptables, infile, parse>>
    /\ UNCHANGED nondrvvars

\* parse_input up to its loop.  action and where are not yet assigned:
\* the do loop is entered whatever action holds, and where is assigned by
\* the first shift
parse_input ==
    /\ drv_pc = "begin"
    /\ tables' = [tables EXCEPT !.parstack =
                     Append(@, [state |-> 1, where |-> Loc(NULL, 0), token |-> 0])]
    /\ parse' = [state |-> 1, pointer |-> 0, knownptr |-> 0, action |-> ERROR,
                 where |-> Loc(NULL, 0)]
    /\ drv_pc' = "parse"
    /\ UNCHANGED <<ptables, infile>>
    /\ UNCHANGED nondrvvars

\* case SHIFT: case SHIFTREDUCE: of one pass of the loop; tables.shifted is
\* the history of the tokens shifted
parse_shift ==
    /\ InLoop
    /\ Selected.action \in {SHIFT, SHIFTREDUCE}
    /\ LET Queued(q) == tables' = q.t /\ parse' = q.parse
           Shifted(d, where, pointer, t4) ==
               LET p == [state |-> IF d.action = SHIFT THEN d.entry ELSE 0,
                         pointer |-> pointer, knownptr |-> pointer,
                         action |-> d.action, where |-> where]
               IN  IF d.action = SHIFT
                   THEN tables' = t4 /\ parse' = p
                   ELSE Queued(QueueReduces(t4, p, d.entry))
           Performed(d, where, t1) ==
               Shifted(d, where, Len(t1.parstack),
                       [WriteLines([t1 EXCEPT !.parstack =
                                       Append(@, [state |-> IF d.action = SHIFT
                                                            THEN d.entry ELSE 0,
                                                  where |-> t1.tknqueue[1].where,
                                                  token |-> t1.tknqueue[1].token])],
                                   t1.tknqueue[1].locus, FALSE)
                          EXCEPT !.tknqueue = Tail(@),
                                 !.shifted = Append(@, t1.tknqueue[1].token)])
           Fetched(d, t0) ==
               Performed(d, Top(t0.parstack).where,
                         perform_reduces(t0, Top(t0.parstack).where))
       IN  Fetched(Selected, NextToken(tables))
    /\ UNCHANGED <<drv_pc, ptables, infile>>
    /\ UNCHANGED nondrvvars

\* case REDUCE: with the reduce performed as soon as it is selected
parse_reduce_at_once ==
    /\ InLoop
    /\ Selected.action = REDUCE
    /\ LET Queued(q) ==
               /\ tables' = perform_reduces(q.t, Top(q.t.parstack).where)
               /\ parse' = q.parse
       IN  Queued(QueueReduces(NextToken(tables), parse, Selected.entry))
    /\ UNCHANGED <<drv_pc, ptables, infile>>
    /\ UNCHANGED nondrvvars

\* case REDUCE: of one pass of the loop
parse_reduce ==
    /\ InLoop
    /\ Selected.action = REDUCE
    /\ LET Queued(q) == tables' = q.t /\ parse' = q.parse
       IN  Queued(QueueReduces(NextToken(tables), parse, Selected.entry))
    /\ UNCHANGED <<drv_pc, ptables, infile>>
    /\ UNCHANGED nondrvvars

\* case ERROR: of one pass of the loop
parse_error ==
    /\ InLoop
    /\ Selected.action = ERROR
    /\ LET Repaired(r) ==
               /\ tables' = r.t
               /\ drv_pc' = IF r.exit THEN "exit" ELSE drv_pc
       IN  Repaired(repair_error(NextToken(tables)))
    /\ parse' = [parse EXCEPT !.action = ERROR]
    /\ UNCHANGED <<ptables, infile>>
    /\ UNCHANGED nondrvvars

\* the end of parse_input, once the action is ACCEPT
parse_accept ==
    /\ drv_pc = "parse"
    /\ parse.action = ACCEPT
    /\ LET Flushed(f) ==
               /\ tables' = f.t
               /\ drv_pc' = IF f.ends THEN "done" ELSE "hang"
       IN  Flushed(FlushMessages(perform_reduces(tables, parse.where)))
    /\ UNCHANGED <<ptables, infile, parse>>
    /\ UNCHANGED nondrvvars

InitParse ==
    /\ PkIdle
    /\ GenIdle
    /\ SetIdle
    /\ drv_pc = "init"
    /\ ptables \in DriverTables
    /\ infile \in InputFiles(ptables)
    /\ tables = <<>>
    /\ parse = <<>>

NextParse ==
    \/ init_parser
    \/ parse_input
    \/ parse_shift
    \/ parse_reduce
    \/ parse_error
    \/ parse_accept

SpecParse == InitParse /\ [][NextParse]_vars

\* the driver on the tables of the first grammar with its default costs and
\* with the costs of CostlyTable.  A repair which neither deletes nor
\* inserts leaves the driver at the same token in the same state, so the
\* repairs of one run are limited to MaxRepairs
MaxRepairs == 3

parse_error_bounded ==
    /\ drv_pc = "parse"
    /\ Len(tables.repairs) < MaxRepairs
    /\ parse_error

InitRepair ==
    /\ PkIdle
    /\ GenIdle
    /\ SetIdle
    /\ drv_pc = "init"
    /\ ptables \in {DriverTable(<<2, 1, 3, -2>>, 0, 0, <<0, 0, 0>>), CostlyTable}
    /\ infile \in InputFiles(ptables)
    /\ tables = <<>>
    /\ parse = <<>>

NextRepair ==
    \/ init_parser
    \/ parse_input
    \/ parse_shift
    \/ parse_reduce
    \/ parse_error_bounded
    \/ parse_accept

SpecRepair == InitRepair /\ [][NextRepair]_vars

(***************************************************************************)
(* Ordered sets: src/intset.c and the symbolset functions of src/symbols.c *)
(*                                                                         *)
(* A set is a dynarray: array tells whether it is allocated (set->array is *)
(* not NULL) and v holds the elements 0..count-1, element i of the source  *)
(* being v[i + 1].                                                         *)
(***************************************************************************)
\* the largest integer, and the largest order of a symbol, of the sets
MaxKey == 2

\* the sets of a call: dst, src1 and src2
SetCount == 3

\* a set which was never allocated, and intset_alloc / symbolset_alloc
NullSet == [array |-> FALSE, v |-> <<>>]
intset_alloc == [array |-> TRUE, v |-> <<>>]
symbolset_alloc == [array |-> TRUE, v |-> <<>>]

\* dyncopy: dynalloc and memcpy of the elements
dyncopy(src) == [array |-> TRUE, v |-> src.v]

\* alloc_symbol: the symbol entries, with their unique order; the names are
\* not in the order of allocation
symbolentries ==
    {[order |-> k, symbol |-> <<"s", MaxKey - k>>] : k \in 0..MaxKey}

\* element i of the source's array
Elem(v, i) == v[i + 1]

\* the array without element i: the loop of intset_delete and
\* symbolset_delete which moves the elements behind i down
Removed(v, i) == SubSeq(v, 1, i) \o SubSeq(v, i + 2, Len(v))

\* the array with e at element i and the elements from i on moved up
Inserted(v, e, i) == SubSeq(v, 1, i) \o <<e>> \o SubSeq(v, i + 1, Len(v))

(***************************************************************************)
(* intset                                                                  *)
(***************************************************************************)
\* the binary search of intset_delete and intset_insert: how
\* the while loop is left
RECURSIVE IntSearch(_, _, _, _)
IntSearch(v, value, lower, upper) ==
    IF lower < upper
    THEN LET i == lower + (upper - lower) \div 2
         IN  IF value < Elem(v, i) THEN IntSearch(v, value, lower, i)
             ELSE IF value > Elem(v, i) THEN IntSearch(v, value, i + 1, upper)
             ELSE [lower |-> lower, upper |-> upper, i |-> i]
    ELSE [lower |-> lower, upper |-> upper, i |-> -1]

intset_delete(set, value) ==
    LET Found(s) ==
            IF s.lower < s.upper THEN [set EXCEPT !.v = Removed(@, s.i)] ELSE set
    IN  IF set.array THEN Found(IntSearch(set.v, value, 0, Len(set.v))) ELSE set

\* for (i = INTCOUNT; i > 0 && INTSET(i - 1) > value; i--)
RECURSIVE IntPlace(_, _, _)
IntPlace(v, value, i) ==
    IF i > 0 /\ Elem(v, i - 1) > value THEN IntPlace(v, value, i - 1) ELSE i

\* intset_insert which appends the new value
intset_insert_at_end(set, value) ==
    LET Found(s) ==
            IF s.lower < s.upper THEN set
            ELSE [set EXCEPT !.v = Append(@, value)]
    IN  IF set.array THEN Found(IntSearch(set.v, value, 0, Len(set.v)))
        ELSE [intset_alloc EXCEPT !.v = <<value>>]

intset_insert(set, value) ==
    LET Found(s) ==
            IF s.lower < s.upper THEN set
            ELSE [set EXCEPT !.v = Inserted(@, value, IntPlace(@, value, Len(@)))]
    IN  IF set.array THEN Found(IntSearch(set.v, value, 0, Len(set.v)))
        ELSE [intset_alloc EXCEPT !.v = <<value>>]

\* while (i1 < INTCOUNT(src1) && INTSET(src1, i1) < INTSET(src2, i2)) i1++
RECURSIVE IntSkip(_, _, _, _)
IntSkip(v1, v2, i1, i2) ==
    IF i1 < Len(v1) /\ Elem(v1, i1) < Elem(v2, i2)
    THEN IntSkip(v1, v2, i1 + 1, i2) ELSE i1

\* the outer while loop of intset_intersect
RECURSIVE IntIntersect(_, _, _, _, _)
IntIntersect(v1, v2, i1, i2, dst) ==
    LET Other(j1, j2, d) ==
            \* the last loop skips in src2, guarded by both counts
            IntIntersect(v1, v2, j1,
                         IF j2 < Len(v2) THEN IntSkip(v2, v1, j2, j1) ELSE j2, d)
        Skipped(j1) ==
            IF j1 < Len(v1) /\ Elem(v1, j1) = Elem(v2, i2)
            THEN Other(j1 + 1, i2 + 1, Append(dst, Elem(v1, j1)))
            ELSE Other(j1, i2, dst)
    IN  IF i1 < Len(v1) /\ i2 < Len(v2)
        THEN Skipped(IntSkip(v1, v2, i1, i2))
        ELSE dst

intset_intersect(src1, src2) ==
    IF src1.array /\ src2.array
    THEN [intset_alloc EXCEPT !.v = IntIntersect(src1.v, src2.v, 0, 0, <<>>)]
    ELSE intset_alloc

\* the outer while loop of intset_union and the two loops behind it
RECURSIVE IntUnion(_, _, _, _, _)
IntUnion(v1, v2, i1, i2, dst) ==
    LET Other(j1, j2, d) ==
            LET k2 == IF j1 < Len(v1) /\ j2 < Len(v2)
                      THEN IntSkip(v2, v1, j2, j1) ELSE j2
            IN  IntUnion(v1, v2, j1, k2, d \o SubSeq(v2, j2 + 1, k2))
        Copied(j1, d) ==
            IF j1 < Len(v1) /\ Elem(v1, j1) = Elem(v2, i2)
            THEN Other(j1 + 1, i2 + 1, Append(d, Elem(v1, j1)))
            ELSE Other(j1, i2, d)
        Skipped(j1) == Copied(j1, dst \o SubSeq(v1, i1 + 1, j1))
    IN  IF i1 < Len(v1) /\ i2 < Len(v2)
        THEN Skipped(IntSkip(v1, v2, i1, i2))
        ELSE dst \o SubSeq(v1, i1 + 1, Len(v1)) \o SubSeq(v2, i2 + 1, Len(v2))

intset_union(src1, src2) ==
    IF src1.array /\ src2.array
    THEN [intset_alloc EXCEPT !.v = IntUnion(src1.v, src2.v, 0, 0, <<>>)]
    ELSE IF src1.array THEN dyncopy(src1)
    ELSE IF src2.array THEN dyncopy(src2)
    ELSE intset_alloc

(***************************************************************************)
(* symbolset: the same functions on symbol entries, compared by their      *)
(* order                                                                   *)
(***************************************************************************)
RECURSIVE SymbolSearch(_, _, _, _)
SymbolSearch(v, symbol, lower, upper) ==
    IF lower < upper
    THEN LET i == lower + (upper - lower) \div 2
         IN  IF symbol.order < Elem(v, i).order THEN SymbolSearch(v, symbol, lower, i)
             ELSE IF symbol.order > Elem(v, i).order
             THEN SymbolSearch(v, symbol, i + 1, upper)
             ELSE [lower |-> lower, upper |-> upper, i |-> i]
    ELSE [lower |-> lower, upper |-> upper, i |-> -1]

symbolset_delete(set, symbol) ==
    LET Found(s) ==
            IF s.lower < s.upper THEN [set EXCEPT !.v = Removed(@, s.i)] ELSE set
    IN  IF set.array THEN Found(SymbolSearch(set.v, symbol, 0, Len(set.v))) ELSE set

RECURSIVE SymbolPlace(_, _, _)
SymbolPlace(v, symbol, i) ==
    IF i > 0 /\ Elem(v, i - 1).order > symbol.order
    THEN SymbolPlace(v, symbol, i - 1) ELSE i

symbolset_insert(set, symbol) ==
    LET Found(s) ==
            IF s.lower < s.upper THEN set
            ELSE [set EXCEPT !.v = Inserted(@, symbol, SymbolPlace(@, symbol, Len(@)))]
    IN  IF set.array THEN Found(SymbolSearch(set.v, symbol, 0, Len(set.v)))
        ELSE [symbolset_alloc EXCEPT !.v = <<symbol>>]

RECURSIVE SymbolSkip(_, _, _, _)
SymbolSkip(v1, v2, i1, i2) ==
    IF i1 < Len(v1) /\ Elem(v1, i1).order < Elem(v2, i2).order
    THEN SymbolSkip(v1, v2, i1 + 1, i2) ELSE i1

RECURSIVE SymbolIntersect(_, _, _, _, _)
SymbolIntersect(v1, v2, i1, i2, dst) ==
    LET Other(j1, j2, d) ==
            SymbolIntersect(v1, v2, j1,
                            IF j2 < Len(v2) THEN SymbolSkip(v2, v1, j2, j1) ELSE j2, d)
        Skipped(j1) ==
            IF j1 < Len(v1) /\ Elem(v1, j1).order = Elem(v2, i2).order
            THEN Other(j1 + 1, i2 + 1, Append(dst, Elem(v1, j1)))
            ELSE Other(j1, i2, dst)
    IN  IF i1 < Len(v1) /\ i2 < Len(v2)
        THEN Skipped(SymbolSkip(v1, v2, i1, i2))
        ELSE dst

symbolset_intersect(src1, src2) ==
    IF src1.array /\ src2.array
    THEN [symbolset_alloc EXCEPT !.v = SymbolIntersect(src1.v, src2.v, 0, 0, <<>>)]
    ELSE symbolset_alloc

RECURSIVE SymbolUnion(_, _, _, _, _)
SymbolUnion(v1, v2, i1, i2, dst) ==
    LET Other(j1, j2, d) ==
            LET k2 == IF j1 < Len(v1) /\ j2 < Len(v2)
                      THEN SymbolSkip(v2, v1, j2, j1) ELSE j2
            IN  SymbolUnion(v1, v2, j1, k2, d \o SubSeq(v2, j2 + 1, k2))
        Copied(j1, d) ==
            IF j1 < Len(v1) /\ Elem(v1, j1).order = Elem(v2, i2).order
            THEN Other(j1 + 1, i2 + 1, Append(d, Elem(v1, j1)))
            ELSE Other(j1, i2, d)
        Skipped(j1) == Copied(j1, dst \o SubSeq(v1, i1 + 1, j1))
    IN  IF i1 < Len(v1) /\ i2 < Len(v2)
        THEN Skipped(SymbolSkip(v1, v2, i1, i2))
        ELSE dst \o SubSeq(v1, i1 + 1, Len(v1)) \o SubSeq(v2, i2 + 1, Len(v2))

symbolset_union(src1, src2) ==
    IF src1.array /\ src2.array
    THEN [symbolset_alloc EXCEPT !.v = SymbolUnion(src1.v, src2.v, 0, 0, <<>>)]
    ELSE IF src1.array THEN dyncopy(src1)
    ELSE IF src2.array THEN dyncopy(src2)
    ELSE symbolset_alloc

(***************************************************************************)
(* The callers of the sets: any sequence of the operations.  A union or    *)
(* intersection is made into a set other than its operands, as all the     *)
(* callers in src/symbols.c do                                             *)
(***************************************************************************)
IntsetInsert ==
    /\ setkind = "intset"
    /\ \E n \in 1..SetCount, value \in 0..MaxKey :
          sets' = [sets EXCEPT ![n] = intset_insert(@, value)]
    /\ UNCHANGED setkind
    /\ UNCHANGED nonsetvars

IntsetDelete ==
    /\ setkind = "intset"
    /\ \E n \in 1..SetCount, value \in 0..MaxKey :
          sets' = [sets EXCEPT ![n] = intset_delete(@, value)]
    /\ UNCHANGED setkind
    /\ UNCHANGED nonsetvars

IntsetUnion ==
    /\ setkind = "intset"
    /\ \E dst \in 1..SetCount : \E src1, src2 \in 1..SetCount \ {dst} :
          sets' = [sets EXCEPT ![dst] = intset_union(sets[src1], sets[src2])]
    /\ UNCHANGED setkind
    /\ UNCHANGED nonsetvars

IntsetIntersect ==
    /\ setkind = "intset"
    /\ \E dst \in 1..SetCount : \E src1, src2 \in 1..SetCount \ {dst} :
          sets' = [sets EXCEPT ![dst] = intset_intersect(sets[src1], sets[src2])]
    /\ UNCHANGED setkind
    /\ UNCHANGED nonsetvars

SymbolsetInsert ==
    /\ setkind = "symbolset"
    /\ \E n \in 1..SetCount, symbol \in symbolentries :
          sets' = [sets EXCEPT ![n] = symbolset_insert(@, symbol)]
    /\ UNCHANGED setkind
    /\ UNCHANGED nonsetvars

SymbolsetDelete ==
    /\ setkind = "symbolset"
    /\ \E n \in 1..SetCount, symbol \in symbolentries :
          sets' = [sets EXCEPT ![n] = symbolset_delete(@, symbol)]
    /\ UNCHANGED setkind
    /\ UNCHANGED nonsetvars

SymbolsetUnion ==
    /\ setkind = "symbolset"
    /\ \E dst \in 1..SetCount : \E src1, src2 \in 1..SetCount \ {dst} :
          sets' = [sets EXCEPT ![dst] = symbolset_union(sets[src1], sets[src2])]
    /\ UNCHANGED setkind
    /\ UNCHANGED nonsetvars

SymbolsetIntersect ==
    /\ setkind = "symbolset"
    /\ \E dst \in 1..SetCount : \E src1, src2 \in 1..SetCount \ {dst} :
          sets' = [sets EXCEPT ![dst] = symbolset_intersect(sets[src1], sets[src2])]
    /\ UNCHANGED setkind
    /\ UNCHANGED nonsetvars

InitSets ==
    /\ PkIdle
    /\ GenIdle
    /\ DrvIdle
    /\ setkind \in {"intset", "symbolset"}
    /\ sets = [n \in 1..SetCount |-> NullSet]

NextSets ==
    \/ IntsetInsert
    \/ IntsetDelete
    \/ IntsetUnion
    \/ IntsetIntersect
    \/ SymbolsetInsert
    \/ SymbolsetDelete
    \/ SymbolsetUnion
    \/ SymbolsetIntersect

SpecSets == InitSets /\ [][NextSets]_vars

(***************************************************************************)
(* Claims about the generator                                              *)
(***************************************************************************)
\* the item designated by a target (state, item)
ItemAt(t) == collection[t.state].itemset[t.item]

\* C5: after lookahead propagation has finished, the lookahead set of every
\* item contains the item's spontaneous follow set, and for every kernel
\* item and every target in its update list the lookahead set of the target
\* contains the lookahead set of the kernel item.
C5_LookaheadFixedPoint ==
    Propagated =>
        \A i \in 1..Len(collection) : \A j \in DOMAIN collection[i].itemset :
            /\ collection[i].itemset[j].follow \subseteq collection[i].itemset[j].lookahead
            /\ j < collection[i].kernel =>
                  \A n \in 1..Len(collection[i].itemset[j].update) :
                      collection[i].itemset[j].lookahead
                          \subseteq ItemAt(collection[i].itemset[j].update[n]).lookahead

\* C5 witness: propagation is over and a kernel item has handed to a
\* target in an earlier state a lookahead symbol which is in neither
\* spontaneous follow set
C5_Witness ==
    /\ Propagated
    /\ \E i \in 1..Len(collection) : \E j \in 0..(collection[i].kernel - 1) :
       \E n \in 1..Len(collection[i].itemset[j].update) :
          /\ collection[i].itemset[j].update[n].state < i
          /\ \E t \in collection[i].itemset[j].lookahead :
                /\ t \notin collection[i].itemset[j].follow
                /\ t \notin ItemAt(collection[i].itemset[j].update[n]).follow
                /\ t \in ItemAt(collection[i].itemset[j].update[n]).lookahead

\* the ancestor a of kernel item k of state s is an item of the kernel
\* item's production with the dot before the symbol shifted into s, moving
\* the dot over that symbol and the epsilon terminals after it gives the
\* kernel item, and the descendant of a is that kernel item
AncestorAgrees(s, k, a) ==
    LET kern == collection[s].itemset[k]
        anc == ItemAt(a)
    IN /\ anc.prod = kern.prod
       /\ anc.dot < productions[anc.prod].length
       /\ \E n \in 1..Len(collection[a.state].gotos) :
             /\ collection[a.state].gotos[n].token = productions[anc.prod].rhside[anc.dot]
             /\ collection[a.state].gotos[n].state = s
       /\ SkipEpsilon(productions[anc.prod], anc.dot + 1) = kern.dot
       /\ anc.descendant = [state |-> s, item |-> k]

\* C6: for every state other than state 1, every ancestor recorded for a
\* kernel item [p, d] is an item of production p with the dot immediately
\* before the shifted symbol, advancing that dot (past the epsilon
\* terminals) gives d, and the ancestor's descendant link designates that
\* same kernel item; so the ancestors recompute the kernel.
C6_AncestorsRederiveKernel ==
    \A s \in 2..Len(collection) : \A k \in 0..(collection[s].kernel - 1) :
        \A n \in 1..Len(collection[s].itemset[k].ancestors) :
            AncestorAgrees(s, k, collection[s].itemset[k].ancestors[n])

\* the same statement for the generations with ERRORREPAIR, where
\* itemset_equal compares the kernels item by item
C6_OrderedKernels ==
    ERRORREPAIR \in options => C6_AncestorsRederiveKernel

\* the lookahead set LALR(1) gives the reduce <P> -> "t" "x" of GrammarOrder
\* contains both "m" and "n"
C6_OrderLookahead ==
    (grammar = GrammarOrder /\ Propagated) =>
        \A s \in 1..Len(collection) : \A j \in DOMAIN collection[s].itemset :
            (collection[s].itemset[j].prod = 8 /\ collection[s].itemset[j].dot = 2)
                => {6, 7} \subseteq collection[s].itemset[j].lookahead
\* the reduces of state s on the token: the items with the dot at the end
\* whose lookahead set holds the token
ReducesOn(s, token) ==
    { i \in DOMAIN collection[s].itemset :
        /\ collection[s].itemset[i].dot
              >= productions[collection[s].itemset[i].prod].length
        /\ token \in collection[s].itemset[i].lookahead }

\* state s has a shift (or shiftreduce) and a reduce on the token
ShiftReduceOn(s, token) ==
    /\ ShiftItems(productions, collection[s].itemset, token) # {}
    /\ ReducesOn(s, token) # {}

\* reduceprec of the reduce item i of state s
ReducePrecOf(s, i) == ReducePrec(productions[collection[s].itemset[i].prod], 0, -1)

\* C7 as the code has it: when a shift (or shiftreduce) and a reduce
\* coexist on a terminal in a state and AMBIGUOUS is selected, the entry
\* becomes the reduce of an item whose reduceprec is numerically less
\* than shiftprec, or equal to it with associativity Left; if the state has
\* no such reduce on the terminal the entry remains the shift (or
\* shiftreduce).
C7_ReduceOnSmallerPrecedence ==
    AMBIGUOUS \in options =>
        \A s \in Built : \A t \in 1..grammar.termcount :
            ShiftReduceOn(s, t) =>
                LET wins == { i \in ReducesOn(s, t) :
                                /\ ReducePrecOf(s, i) >= 0
                                /\ \/ ReducePrecOf(s, i) < grammar.precedence[t]
                                   \/ /\ ReducePrecOf(s, i) = grammar.precedence[t]
                                      /\ grammar.assoc[t] = LEFT }
                IN IF wins # {}
                   THEN lrstates[s][t] \in { -collection[s].itemset[i].prod : i \in wins }
                   ELSE lrstates[s][t] > 0

\* C7 witness: under AMBIGUOUS the table is built, the entry of one
\* conflict has become the reduce by a production of smaller reduceprec
\* than shiftprec, and the entry of another conflict is still the shift
\* because shiftprec is the smaller
C7_Witness ==
    /\ AMBIGUOUS \in options
    /\ \E s \in Built : \E t \in 1..grammar.termcount :
          /\ ShiftReduceOn(s, t)
          /\ \E i \in ReducesOn(s, t) :
                /\ ReducePrecOf(s, i) >= 0
                /\ ReducePrecOf(s, i) < grammar.precedence[t]
                /\ lrstates[s][t] = -collection[s].itemset[i].prod
    /\ \E s \in Built : \E t \in 1..grammar.termcount :
          /\ ShiftReduceOn(s, t)
          /\ \A i \in ReducesOn(s, t) : grammar.precedence[t] < ReducePrecOf(s, i)
          /\ lrstates[s][t] > 0

\* C7 as stated: when a shift (or shiftreduce) and a reduce coexist on a
\* terminal in a state and AMBIGUOUS is selected, the entry becomes the
\* reduce if reduceprec > shiftprec, or if the two are equal and the
\* associativity is Left; in every other case in which the reduce has a
\* precedence the entry remains the shift (or shiftreduce).
C7_ReduceOnGreaterPrecedence ==
    AMBIGUOUS \in options =>
        \A s \in Built : \A t \in 1..grammar.termcount :
            ShiftReduceOn(s, t) =>
                LET wins == { i \in ReducesOn(s, t) :
                                /\ ReducePrecOf(s, i) >= 0
                                /\ \/ ReducePrecOf(s, i) > grammar.precedence[t]
                                   \/ /\ ReducePrecOf(s, i) = grammar.precedence[t]
                                      /\ grammar.assoc[t] = LEFT }
                IN IF wins # {}
                   THEN lrstates[s][t] \in { -collection[s].itemset[i].prod : i \in wins }
                   ELSE lrstates[s][t] > 0

\* a message about state s has been written to stderr
Reported(text, s) ==
    \E n \in 1..Len(stderr) : stderr[n].msg = text /\ stderr[n].state = s

C8_FlaggedIsFatal ==
    AMBIGUOUS \in options =>
        \A s \in Built : \A t \in 1..grammar.termcount :
            \A i \in ReducesOn(s, t) :
                (/\ ShiftItems(productions, collection[s].itemset, t) # {}
                 /\ \/ ReducePrecOf(s, i) < 0
                    \/ /\ ReducePrecOf(s, i) = grammar.precedence[t]
                       /\ grammar.assoc[t] = NONE)
                => process = FALSE

\* a message of this text has been written to stderr
Said(text) == \E n \in 1..Len(stderr) : stderr[n].msg = text

\* the grammar-building errors found so far: those the semantic routines
\* recorded and the conflicts the table construction could not resolve
BuildingError ==
    \/ semerrors # {}
    \/ Said("Shift-Reduce conflict cannot be resolved")
    \/ Said("Reduce-Reduce conflict cannot be resolved")
    \/ (SPLITSTATES \notin options /\ Said("Reduce-Reduce conflict in state"))

\* C9: every grammar-building error (undefined nonterminal, duplicate
\* token, missing quote, invalid range, alias of an alias, shift-reduce
\* conflict without usable precedence, reduce-reduce conflict without
\* SPLITSTATES, unresolved lane conflict) sets process = false, and whenever
\* process is false at the end of generation no tables file is written.
C9_ErrorsSuppressTables ==
    gen_pc = "exit" =>
        /\ BuildingError => process = FALSE
        /\ process = FALSE => written = FALSE

\* the part of C9 the code keeps: the tables file is written only if
\* process is still set, and the conflicts which cannot be resolved clear it
C9_ConflictsSuppressTables ==
    gen_pc = "exit" =>
        /\ (\/ Said("Shift-Reduce conflict cannot be resolved")
            \/ Said("Reduce-Reduce conflict cannot be resolved")
            \/ (SPLITSTATES \notin options /\ Said("Reduce-Reduce conflict in state")))
           => process = FALSE
        /\ process = FALSE => written = FALSE

\* the table construction finds a reduce-reduce conflict in state s: two
\* reduces by different productions on a terminal the state does not shift
ReduceReduceIn(s) ==
    \E t \in 1..grammar.termcount : \E i, j \in ReducesOn(s, t) :
        /\ collection[s].itemset[i].prod # collection[s].itemset[j].prod
        /\ ShiftItems(productions, collection[s].itemset, t) = {}

\* C10: if the table construction finds a reduce-reduce conflict and
\* SPLITSTATES is not selected, the step of build_table which finds it
\* clears process and adds no state to the collection, and from then on
\* process stays false, so that no tables file has been written when the
\* generator exits.
C10_NoSplitWithoutOption ==
    /\ [][(/\ gen_pc = "table"
           /\ gen_i < COLLCOUNT(collection)
           /\ SPLITSTATES \notin options
           /\ ReduceReduceIn(gen_i))
          => (process' = FALSE /\ collection' = collection)]_vars
    /\ []((SPLITSTATES \notin options /\ Said("Reduce-Reduce conflict in state"))
             => (process = FALSE /\ written = FALSE))

\* C10 witness: a generation without SPLITSTATES has found a reduce-reduce
\* conflict, reported it and come to its end with process false and no
\* tables file
C10_Witness ==
    /\ gen_pc = "exit"
    /\ SPLITSTATES \notin options
    /\ \E s \in 1..Len(collection) : ReduceReduceIn(s)
    /\ Said("Reduce-Reduce conflict in state")
    /\ process = FALSE /\ written = FALSE
    /\ errortoken # <<>>

(***************************************************************************)
(* C3                                                                      *)
(***************************************************************************)
\* the semantic routine numbers the callback is called with for these
\* productions: a production without a semantic routine has no call
Callbacks(numbers) ==
    LET Called(semantic) == semantic # 0
    IN  SelectSeq([k \in 1..Len(numbers) |-> ptables.semantics[numbers[k]]], Called)

\* the productions of the reduces which are in the reduce queue
Queue == [k \in 1..Len(tables.redqueue) |-> tables.redqueue[k].number]

\* the driver has found no action for the next token and calls repair_error
DetectsError == InLoop /\ Selected.action = ERROR

\* the calls made so far are those of the reduces which have left the queue
QueuedNotCalled == tables.performed \o Callbacks(Queue) = Callbacks(tables.queued)

\* C3: whenever the driver detects a syntax error and invokes the repair,
\* the semantic callback has not been called for any reduce which is still
\* in the reduce queue (the calls made so far are exactly those of the
\* reduces which have left the queue, in the order they were queued); and
\* the callback is called only in a pass of the loop which has selected the
\* shift or shiftreduce of a terminal, or after the accept
C3_CallbacksAfterShift ==
    /\ [](DetectsError => QueuedNotCalled)
    /\ [][drv_pc = "parse" /\ tables'.performed # tables.performed
            => \/ InLoop /\ Selected.action \in {SHIFT, SHIFTREDUCE}
               \/ parse.action = ACCEPT]_vars

\* the repair has just been made while reduces with semantic routines were
\* queued, after the callback had been called for earlier reduces
C3_Witness ==
    /\ drv_pc = "parse"
    /\ parse.action = ERROR
    /\ Len(tables.msgqueue) > 0
    /\ Callbacks(Queue) # <<>>
    /\ tables.performed # <<>>
    /\ QueuedNotCalled

(***************************************************************************)
(* C4                                                                      *)
(***************************************************************************)
\* the location refers to an input buffer which has been freed
Freed(where) == where.buffer # NULL /\ where.buffer < tables.bufferlist

Running == drv_pc \in {"parse", "done", "exit"}

\* no location of a token queue entry refers to a freed buffer
TokenQueueLive ==
    \A k \in 1..Len(tables.tknqueue) :
        ~Freed(tables.tknqueue[k].locus) /\ ~Freed(tables.tknqueue[k].where)

\* no location of a parse stack entry refers to a freed buffer
ParseStackLive ==
    \A k \in 1..Len(tables.parstack) : ~Freed(tables.parstack[k].where)

\* the buffers which are freed are those the unwritten position has passed
FreedBehindUnwritten == tables.bufferlist <= tables.unwritten.buffer

\* C4: at every point of a run no location stored in a token queue entry or
\* in a parse stack entry refers to an input buffer which has been freed,
\* and buffers are freed only once the unwritten position has advanced past
\* them
C4_LocationsLive ==
    Running => TokenQueueLive /\ ParseStackLive /\ FreedBehindUnwritten

\* what holds of it: buffers are freed only behind the unwritten position,
\* and while the driver parses the token queue refers to no freed buffer
C4_TokenQueueLive ==
    /\ Running => FreedBehindUnwritten
    /\ drv_pc \in {"parse", "done"} => TokenQueueLive

\* build_table is at a state of the reduce-reduce grammar in which the
\* table construction finds a reduce-reduce conflict, SPLITSTATES selected
SplitsReduceReduce ==
    /\ gen_pc = "table"
    /\ gen_i < COLLCOUNT(collection)
    /\ grammar = GrammarRR
    /\ SPLITSTATES \in options
    /\ process
    /\ ReduceReduceIn(gen_i)

\* C11 as stated: for the grammar <L> -> <A> "x" | <B> "x" ; <A> -> "a" ;
\* <B> -> "a" with SPLITSTATES selected, lane tracing succeeds, process
\* stays true, and the number of parser states after splitting is exactly
\* one more than the number before.
C11_SplitAddsOneState ==
    [][SplitsReduceReduce
          => (process' /\ COLLCOUNT(collection') = COLLCOUNT(collection) + 1)]_vars

\* C11: for the grammar <L> -> <A> "x" | <B> "x" ; <A> -> "a" ; <B> -> "a"
\* with SPLITSTATES selected, lane tracing fails: both reduces get the
\* lookahead "x" spontaneously in the start state, so split_states reports
\* a spontaneous lookahead conflict which cannot be resolved, clears
\* process and leaves the number of parser states as it was; no tables file
\* is written.
C11_SplitFailsOnAmbiguity ==
    /\ [][SplitsReduceReduce
            => /\ process' = FALSE
               /\ collection' = collection
               /\ \E n \in 1..Len(stderr') :
                     stderr'[n].msg = "Spontaneous lookahead conflict"]_vars
    /\ []((grammar = GrammarRR /\ SPLITSTATES \in options /\ gen_pc = "exit"
             /\ collection # <<>>)
            => (process = FALSE /\ written = FALSE
                  /\ Said("Reduce-Reduce conflict cannot be resolved")))

\* C11 witness: the generation of the grammar with SPLITSTATES has come to
\* its end after the failed lane tracing
C11_Witness ==
    /\ gen_pc = "exit"
    /\ grammar = GrammarRR
    /\ SPLITSTATES \in options
    /\ \E s \in 1..Len(collection) : ReduceReduceIn(s)
    /\ Said("Spontaneous lookahead conflict")
    /\ Said("Reduce-Reduce conflict cannot be resolved")
    /\ process = FALSE /\ written = FALSE

(***************************************************************************)
(* C12: the input aab of the grammar S -> a S b | empty                    *)
(***************************************************************************)
\* the tables of the grammar, with any of its options, and the input aab
ParsesAAB == ptables.name = "nest" /\ infile.text = <<1, 1, 2>>

\* one repair, after a, a and b are shifted, which deletes nothing and
\* inserts the terminal b, at the insert cost of b
InsertsB ==
    tables.repairs = <<[deleted |-> <<>>, inserted |-> <<2>>,
                        cost |-> ptables.inscost[2], shifted |-> 3]>>

\* the steps the loop of parse_input has taken: the tokens shifted, the
\* reduces queued and the repairs made
Steps(t) == Len(t.shifted) + Len(t.queued) + Len(t.repairs)

\* C12: for the grammar S -> a S b | empty with error repair, the parse of
\* aab ends in accept, after exactly one repair: it inserts the single
\* terminal b and deletes nothing, and its cost is the insert cost of b.
\* The parse ends: each pass of the loop has a case to take, and adds to a
\* bounded count of steps
C12_RepairInsertsB ==
    /\ [](ParsesAAB /\ drv_pc # "init" =>
            /\ drv_pc \in {"begin", "parse", "done"}
            /\ Len(tables.repairs) <= 1
            /\ Len(tables.shifted) <= 5 /\ Len(tables.queued) <= 4
            /\ drv_pc = "done" => parse.action = ACCEPT /\ InsertsB)
    /\ [](ParsesAAB /\ InLoop =>
            Selected.action \in {ERROR, SHIFT, SHIFTREDUCE, REDUCE})
    /\ [][ParsesAAB /\ InLoop => Steps(tables') > Steps(tables)]_vars

C12_Witness ==
    /\ ParsesAAB /\ drv_pc = "done" /\ parse.action = ACCEPT /\ InsertsB
    /\ ptables.inscost[2] > 0

(***************************************************************************)
(* C13: the input abc of the grammar S -> a S b | empty, where no token    *)
(* starts with c                                                           *)
(***************************************************************************)
ParsesABC == ptables.name = "nest" /\ infile.text = <<1, 2, LETTERC>>

\* the scanner errors recorded: those queued and those written
ScannerErrors(t) ==
    Cardinality({k \in DOMAIN t.msgqueue : t.msgqueue[k].message = NoMessage})
      + Cardinality({k \in DOMAIN t.stdout : t.stdout[k].message = NoMessage})

\* C13, as stated: on the input abc the scanner records exactly one scanner
\* error and the parser performs a repair which deletes input and inserts
\* no token
C13_ParserDeletes ==
    ParsesABC /\ drv_pc = "done" =>
        /\ ScannerErrors(tables) = 1
        /\ Len(tables.repairs) >= 1
        /\ \A k \in DOMAIN tables.repairs :
              tables.repairs[k].inserted = <<>> /\ tables.repairs[k].deleted # <<>>

\* C13, as the driver behaves: on the input abc the scanner records exactly
\* one scanner error, on the one character c, and scans on behind it; the
\* parser shifts a, b and the end of file and accepts without any repair,
\* and the scanner error is the only message written
C13_ScannerSkips ==
    ParsesABC /\ drv_pc # "init" =>
        /\ drv_pc \in {"begin", "parse", "done"}
        /\ tables.repairs = <<>>
        /\ ScannerErrors(tables) <= 1
        /\ drv_pc = "done" =>
              /\ parse.action = ACCEPT
              /\ tables.shifted = <<1, 2, ptables.tnumber>>
              /\ tables.msgqueue = <<>> /\ Len(tables.stdout) = 1
              /\ tables.stdout[1].message = NoMessage
              /\ tables.stdout[1].point = tables.stdout[1].last

C13_Witness ==
    /\ ParsesABC /\ drv_pc = "done" /\ parse.action = ACCEPT
    /\ ScannerErrors(tables) = 1 /\ tables.repairs = <<>>

(***************************************************************************)
(* C14: the fatal syntax error                                             *)
(***************************************************************************)
\* build_continuation, from the real state of the parse stack of t, comes to
\* a simulated stack whose top state has the error repair value 0
NoRepairValue(t) ==
    build_continuation(RealStack([i \in 1..Len(t.parstack) |-> t.parstack[i].state],
                                 t.redqueue, 1)).fatal

\* a message Syntax error at the location where has been written
SyntaxErrorWritten(t, where) ==
    \E k \in DOMAIN t.stdout :
        t.stdout[k].message = Text("Syntax error") /\ t.stdout[k].point = where

\* the pass of the loop which t0, with the token in error at the head of
\* its queue, leaves as t1 is a fatal syntax error
FatalPass(t0, t1) ==
    /\ drv_pc' = "exit"
    /\ SyntaxErrorWritten(t1, t0.tknqueue[1].where)
    /\ Len(t1.stdout) = Len(t0.stdout) + Len(t0.msgqueue) + 1
    /\ t1.msgqueue = <<>>
    /\ Precedes(t0.tknqueue[1].locus, t1.unwritten)
    /\ t1.repairs = t0.repairs /\ t1.tknqueue = t0.tknqueue
    /\ t1.parstack = t0.parstack /\ t1.redqueue = t0.redqueue
    /\ t1.performed = t0.performed /\ t1.shifted = t0.shifted

\* C14: if, while a syntax error is repaired, the state on top of the
\* simulated stack has the error repair value 0, the error is fatal: a
\* Syntax error message is recorded at the token in error, the source is
\* written up to and including the current line, with the message, and the
\* driver exits with code 1 and has applied no repair
C14_FatalSyntaxError ==
    [][InLoop /\ Selected.action = ERROR /\ NoRepairValue(NextToken(tables))
         => FatalPass(NextToken(tables), tables')]_vars

C14_Witness ==
    /\ drv_pc = "exit"
    /\ tables.repairs = <<>> /\ Len(tables.shifted) > 0
    /\ tables.lineno > 1
    /\ \E k \in DOMAIN tables.stdout : tables.stdout[k].message = Text("Syntax error")

(***************************************************************************)
(* C15: scanner errors                                                     *)
(***************************************************************************)
\* the number of bytes of the input file before the location where
Bytes(t, where) ==
    LET RECURSIVE Sum(_)
        Sum(b) == IF b < 0 THEN 0 ELSE t.buffers[b].count + Sum(b - 1)
    IN  Sum(where.buffer - 1) + where.offset

\* no token of the scanner begins with the text which begins at byte i of
\* text: the letter c, or the letter q not followed by x
NoTokenAt(text, i) ==
    \/ text[i] = LETTERC
    \/ text[i] = LETTERQ /\ ~(i < Len(text) /\ text[i + 1] = 1)

\* the tokens of text from byte i on, when each byte at which no token
\* begins is skipped: x, y, a, b, qx for x, the ignored end of line and the
\* end of file
RECURSIVE TokensFrom(_, _)
TokensFrom(text, i) ==
    IF i > Len(text) THEN <<ptables.tnumber>>
    ELSE IF NoTokenAt(text, i) \/ text[i] = NEWLINE THEN TokensFrom(text, i + 1)
    ELSE IF text[i] = LETTERQ THEN <<1>> \o TokensFrom(text, i + 2)
    ELSE <<text[i]>> \o TokensFrom(text, i + 1)

\* the bytes which the scanner error messages of queue cover
UndefinedBytes(t, queue) ==
    {i \in 1..Len(infile.text) :
        \E k \in DOMAIN queue :
            /\ queue[k].message = NoMessage
            /\ Bytes(t, queue[k].point) < i /\ i <= Bytes(t, queue[k].last) + 1}

\* the tokens scanned: those shifted and those in the token queue
ScannedTokens(t) == t.shifted \o [k \in DOMAIN t.tknqueue |-> t.tknqueue[k].token]

\* C15: when the scanner reaches no final state for the text which begins
\* at some position it records a scanner error, with a null message, on the
\* byte at that position and scans again exactly one byte further; the run
\* goes on.  So the bytes with scanner errors are the bytes scanned at which
\* no token begins, the tokens are those of the text without these bytes,
\* and the driver exits only with a fatal syntax error
C15_ScannerErrorSkipsOneByte ==
    drv_pc \in {"parse", "done", "exit", "hang"} =>
        /\ UndefinedBytes(tables, tables.msgqueue \o tables.stdout)
              = {i \in 1..Len(infile.text) :
                    i <= Bytes(tables, tables.position) /\ NoTokenAt(infile.text, i)}
        /\ tables.repairs = <<>> =>
              \A k \in DOMAIN ScannedTokens(tables) :
                  ScannedTokens(tables)[k]
                     = IF k <= Len(TokensFrom(infile.text, 1))
                       THEN TokensFrom(infile.text, 1)[k] ELSE ptables.tnumber
        /\ InLoop => Len(NextToken(tables).tknqueue) > 0
        /\ drv_pc = "exit" =>
              \E k \in DOMAIN tables.stdout :
                  tables.stdout[k].message = Text("Syntax error")

\* an attempt of two bytes, q and y, has failed and the scanner has gone on
\* with the y
C15_Witness ==
    /\ drv_pc = "done"
    /\ \E i \in 1..(Len(infile.text) - 1) :
          /\ infile.text[i] = LETTERQ /\ infile.text[i + 1] = 2
          /\ i \in UndefinedBytes(tables, tables.stdout)
          /\ i + 1 \notin UndefinedBytes(tables, tables.stdout)
    /\ \E k \in DOMAIN tables.shifted : tables.shifted[k] = 2

(***************************************************************************)
(* C16: draining the reduce queue                                          *)
(***************************************************************************)
\* the reduces of the queue of t applied first in first out, from reduce i
\* on: the semantic routine of the production is called if it has one, then
\* as many entries as its right hand side is long are popped and its left
\* hand side is pushed, at the location where
RECURSIVE DrainedFrom(_, _, _)
DrainedFrom(t, where, i) ==
    IF i > Len(t.redqueue) THEN t
    ELSE LET number == t.redqueue[i].number
             Called(t1) ==
                 DrainedFrom([t1 EXCEPT !.parstack =
                                Append(SubSeq(@, 1, Len(@) - ptables.rhslength[number]),
                                       [state |-> t.redqueue[i].state, where |-> where,
                                        token |-> ptables.lhsymbol[number]])],
                             where, i + 1)
         IN  Called(IF ptables.semantics[number] # 0
                    THEN SemanticAction(t, ptables.semantics[number]) ELSE t)

\* the semantic routines of the productions of queue, in its order
Routines(queue) ==
    LET all == [k \in DOMAIN queue |-> ptables.semantics[queue[k].number]]
        Called(n) == n # 0
    IN  SelectSeq(all, Called)

\* perform_reduces(t, where) drains the queue of t as C16 says
DrainsInOrder(t, where) ==
    LET Drained(d) ==
            /\ d.redqueue = <<>>
            /\ d.performed = t.performed \o Routines(t.redqueue)
            /\ d = [DrainedFrom(t, where, 1) EXCEPT !.redqueue = <<>>]
    IN  Drained(perform_reduces(t, where))

\* parse_input is about to call perform_reduces: at a shift of a terminal
\* and at the accept
AboutToDrain ==
    /\ drv_pc = "parse"
    /\ parse.action = ACCEPT \/ Selected.action \in {SHIFT, SHIFTREDUCE}

\* C16: perform_reduces processes the queued reduces in the order in which
\* they were queued: for each the semantic routine is called first, if the
\* production has one, then exactly the entries of its right hand side are
\* popped from the parse stack and its left hand side symbol is pushed; the
\* reduce queue is empty afterwards
C16_DrainIsFIFO ==
    AboutToDrain =>
        IF parse.action = ACCEPT THEN DrainsInOrder(tables, parse.where)
        ELSE DrainsInOrder(NextToken(tables), Top(NextToken(tables).parstack).where)

\* a drain of several reduces, with and without semantic routines, one of
\* which reports an error at an entry of its right hand side
C16_Witness ==
    /\ AboutToDrain /\ parse.action # ACCEPT
    /\ Len(tables.redqueue) >= 2
    /\ \E k \in DOMAIN tables.redqueue :
          /\ ptables.semantics[tables.redqueue[k].number] # 0
          /\ ptables.reports[ptables.semantics[tables.redqueue[k].number]] > 0
    /\ \E k \in DOMAIN tables.redqueue :
          ptables.rhslength[tables.redqueue[k].number] >= 2

(***************************************************************************)
(* C17: the order of the message queue                                     *)
(***************************************************************************)
\* C17: after any sequence of enqueues of errors (scanner errors, repair
\* messages, semantic errors) and of line writes the message queue is
\* ordered by location: of two consecutive entries the earlier has the
\* smaller buffer order, or the same buffer order and a smaller or equal
\* offset
C17_MessageQueueOrdered ==
    drv_pc \in {"parse", "done", "exit", "hang"} =>
        \A k \in 1..(Len(tables.msgqueue) - 1) :
            ~Precedes(tables.msgqueue[k + 1].point, tables.msgqueue[k].point)

\* what holds of it: the queue is ordered as long as enqueue_error reads
\* the order of live buffers, or of freed buffers which still hold it
C17_OrderedWithoutStaleOrder ==
    drv_pc \in {"parse", "done", "exit", "hang"} /\ ~tables.garbage =>
        \A k \in 1..(Len(tables.msgqueue) - 1) :
            ~Precedes(tables.msgqueue[k + 1].point, tables.msgqueue[k].point)

(***************************************************************************)
(* C20: the parse resumes after a repair                                   *)
(***************************************************************************)
\* this step is a call of repair_error which returns
RepairReturns ==
    /\ InLoop /\ Selected.action = ERROR
    /\ drv_pc' = "parse"

KeyOf(e) == IF setkind = "intset" THEN e ELSE e.order

\* the keys of the element vector v are strictly increasing
StrictlyIncreasing(v) ==
    \A i \in 1..(Len(v) - 1) : KeyOf(v[i]) < KeyOf(v[i + 1])

\* the elements of a set
Members(set) == {set.v[i] : i \in DOMAIN set.v}

\* C18: after any sequence of insert, delete, union and intersect operations
\* the element vector of every ordered set has strictly increasing keys, the
\* integer of an intset and the order of the symbol of a symbolset; so it
\* holds no duplicate, and the result of a union or an intersection is
\* sorted, and holds the elements it is to hold
C18_SetsStrictlyIncreasing ==
    setkind \in {"intset", "symbolset"} =>
        /\ \A n \in 1..SetCount :
              /\ StrictlyIncreasing(sets[n].v)
              /\ Cardinality(Members(sets[n])) = Len(sets[n].v)
        /\ \A src1, src2 \in 1..SetCount :
              /\ setkind = "intset" =>
                    /\ StrictlyIncreasing(intset_union(sets[src1], sets[src2]).v)
                    /\ StrictlyIncreasing(intset_intersect(sets[src1], sets[src2]).v)
                    /\ Members(intset_union(sets[src1], sets[src2]))
                          = Members(sets[src1]) \cup Members(sets[src2])
                    /\ Members(intset_intersect(sets[src1], sets[src2]))
                          = Members(sets[src1]) \cap Members(sets[src2])
              /\ setkind = "symbolset" =>
                    /\ StrictlyIncreasing(symbolset_union(sets[src1], sets[src2]).v)
                    /\ StrictlyIncreasing(symbolset_intersect(sets[src1], sets[src2]).v)
                    /\ Members(symbolset_union(sets[src1], sets[src2]))
                          = Members(sets[src1]) \cup Members(sets[src2])
                    /\ Members(symbolset_intersect(sets[src1], sets[src2]))
                          = Members(sets[src1]) \cap Members(sets[src2])

\* a set of all the keys which is the union of two sets which overlap and
\* each hold a key the other does not
C18_Witness ==
    /\ setkind = "symbolset"
    /\ Len(sets[1].v) = MaxKey + 1
    /\ Len(sets[2].v) = MaxKey /\ Len(sets[3].v) = MaxKey
    /\ sets[2] # sets[3]
    /\ sets[1] = symbolset_union(sets[2], sets[3])

(***************************************************************************)
(* C19: the exit code of sdtgen                                            *)
(***************************************************************************)
\* main or write_tables has reported a file which it cannot open or create
FileErrorSaid ==
    \E k \in DOMAIN stderr : stderr[k].msg \in {"can't open", "can't create"}

\* the run has met an error of the grammar which keeps it from being
\* processed: a semantic error was recorded, or the generation was started
\* and has cleared process (init_scangen failed, or a conflict cannot be
\* resolved)
SemanticErrorMet == semerrors # {} \/ (~process /\ collection # <<>>)

\* C19: sdtgen exits with code 0 on success and with code 1 on a file error
\* or a fatal semantic error
C19_ExitCodeTellsErrors ==
    gen_pc = "exit" =>
        exitcode = IF FileErrorSaid \/ SemanticErrorMet THEN 1 ELSE 0

\* what holds of it: the exit code is 1 after a file error and 0 otherwise,
\* whatever errors the grammar has
C19_ExitCodeTellsFileErrors ==
    /\ gen_pc = "exit" => exitcode = IF FileErrorSaid THEN 1 ELSE 0
    /\ gen_pc # "exit" => exitcode = -1

(***************************************************************************)
(* C21: the delayed reduces and a driver which reduces at once             *)
(***************************************************************************)
\* the state column of a parse stack
States(stack) == [k \in 1..Len(stack) |-> stack[k].state]

\* the state column after the reduces of queue q, from reduce i on, are
\* applied at once: the right hand side is popped and the state of the goto
\* on the left hand side is pushed, 0 after a shiftreduce and the accept
RECURSIVE ReducedAtOnce(_, _, _)
ReducedAtOnce(states, q, i) ==
    IF i > Len(q) THEN states
    ELSE LET popped == SubSeq(states, 1,
                              Len(states) - ptables.rhslength[q[i].number])
             Pushed(g) ==
                 ReducedAtOnce(Append(popped, IF g.action = SHIFT THEN g.entry ELSE 0),
                               q, i + 1)
         IN  Pushed(decode_goto(Top(popped), ptables.lhsymbol[q[i].number]))

\* perform_reduces(t, where) leaves the state column of a driver which
\* reduces at once
DrainsAsAtOnce(t, where) ==
    States(perform_reduces(t, where).parstack)
        = ReducedAtOnce(States(t.parstack), t.redqueue, 1)

\* C21: while reduces are queued the state with which the driver decodes
\* the next action, and its pointer, are the top of the parse stack as it
\* would be had every queued reduce been applied at once; every search of
\* the reduce queue made while the pointer was above knownptr has stopped at
\* an entry of the queue whose pointer is exactly the pointer searched for;
\* the driver accepts by the goto on the goal symbol only; and a drain
\* leaves the state column of the driver which reduces at once
C21_DelayedAsAtOnce ==
    drv_pc = "parse" =>
        /\ parse.action = ACCEPT =>
              /\ tables.redqueue # <<>>
              /\ ptables.lhsymbol[tables.redqueue[Len(tables.redqueue)].number]
                    = ptables.tnumber + 1
        /\ parse.state = Top(ReducedAtOnce(States(tables.parstack), tables.redqueue, 1))
        /\ parse.pointer + 1
              = Len(ReducedAtOnce(States(tables.parstack), tables.redqueue, 1))
        /\ \A k \in DOMAIN tables.searches :
              /\ tables.searches[k].index >= 1
              /\ tables.searches[k].found = tables.searches[k].pointer
        /\ AboutToDrain =>
              IF parse.action = ACCEPT THEN DrainsAsAtOnce(tables, parse.where)
              ELSE DrainsAsAtOnce(NextToken(tables), Top(NextToken(tables).parstack).where)

\* the queue has been searched three times, the last time past later
\* entries for an entry which is not the only one with that pointer
C21_Witness ==
    /\ drv_pc = "parse"
    /\ Len(tables.searches) >= 3
    /\ Len(tables.redqueue) >= 4
    /\ \E k \in DOMAIN tables.searches :
          /\ tables.searches[k].index >= 1
          /\ tables.searches[k].index < Len(tables.redqueue) - 1
          /\ tables.redqueue[tables.searches[k].index + 1].pointer
                > tables.searches[k].pointer

(***************************************************************************)
(* C22: the least cost repair                                              *)
(***************************************************************************)
\* the cost of the cheaper candidate of a pass of the search
Candidate(pass) == MinOf(pass.insert.cost, pass.prefix.cost)

\* the least cost of the candidates of the first j passes, MAXCOST when
\* there is none below it
LeastOf(passes, j) ==
    LET costs == {MAXCOST} \cup {Candidate(passes[i]) : i \in 1..j}
    IN  CHOOSE c \in costs : \A d \in costs : c <= d

\* the sum of the costs of the tokens
RECURSIVE CostOf(_, _)
CostOf(costs, tokens) ==
    IF tokens = <<>> THEN 0 ELSE costs[Head(tokens)] + CostOf(costs, Tail(tokens))

\* the repair made is the first candidate of the least cost of all passes
LeastCost(made, passes) ==
    LET least == LeastOf(passes, Len(passes))
    IN  /\ made.cost = least
        /\ \A j \in DOMAIN passes : made.cost <= Candidate(passes[j])
        /\ least = MAXCOST => made.deleted = <<>>
        /\ least < MAXCOST =>
              \E j \in DOMAIN passes :
                 /\ Candidate(passes[j]) = least
                 /\ \A i \in 1..(j - 1) : Candidate(passes[i]) > least
                 /\ passes[j].adopted
                 /\ \A i \in (j + 1)..Len(passes) : ~passes[i].adopted
                 /\ made.deleted = passes[j].scanned
                 /\ IF passes[j].insert.cost <= passes[j].prefix.cost
                    THEN made.inserted = <<passes[j].insert.token>>
                    ELSE Len(made.inserted) = passes[j].prefix.prefix
                 /\ made.cost >= CostOf(ptables.delcost, made.deleted)
                                   + CostOf(ptables.inscost, made.inserted)
                 /\ ptables.context = 0 =>
                       made.cost = CostOf(ptables.delcost, made.deleted)
                                     + CostOf(ptables.inscost, made.inserted)

TokensOf(queue) == [k \in DOMAIN queue |-> queue[k].token]

\* the entries of queue lie at locations of the input one behind the
\* other; at the end of the file the scanner gives the sentinel again for
\* every token which is asked of it
InInputOrder(queue) ==
    \A i \in 1..(Len(queue) - 1) :
        \/ Precedes(queue[i].where, queue[i + 1].where)
        \/ /\ queue[i].token = ptables.tnumber
           /\ queue[i + 1] = queue[i]

\* the token queue after of a repair made, with the token queue before in
\* front of it: the tokens inserted, each with the line and the location of
\* the first token behind them, then the tokens of before which are not
\* deleted and the tokens read behind them, as they were
QueueRepaired(before, after, made) ==
    LET n == Len(made.inserted)
        d == Len(made.deleted)
        rest == SubSeq(after, n + 1, Len(after))
    IN  /\ Len(after) > n
        /\ \A i \in 1..n :
              /\ after[i].token = made.inserted[i]
              /\ after[i].locus = after[n + 1].locus
              /\ after[i].where = after[n + 1].where
        /\ InInputOrder(before) /\ InInputOrder(rest)
        /\ Len(rest) >= Len(before) - d
        /\ \A i \in DOMAIN before :
              IF i <= d
              THEN /\ before[i].token = made.deleted[i]
                   /\ Precedes(before[i].where, rest[1].where)
              ELSE rest[i - d] = before[i]

\* the tokens of the input which the driver has taken from the scanner, in
\* their order: those shifted before repair k and not inserted by the
\* repair before it, those which repair k has deleted, and so on, then those
\* shifted since the last repair and those of the token queue.  from is the
\* number of tokens shifted when the tokens inserted last are all shifted
RECURSIVE TakenFrom(_, _, _)
TakenFrom(t, k, from) ==
    IF k > Len(t.repairs)
    THEN SubSeq(t.shifted, from + 1, Len(t.shifted))
           \o SubSeq(TokensOf(t.tknqueue),
                     (IF from > Len(t.shifted) THEN from - Len(t.shifted) ELSE 0) + 1,
                     Len(t.tknqueue))
    ELSE SubSeq(t.shifted, from + 1, t.repairs[k].shifted)
           \o t.repairs[k].deleted
           \o TakenFrom(t, k + 1, t.repairs[k].shifted + Len(t.repairs[k].inserted))

\* C23: after a repair the token queue holds the tokens inserted, then the
\* tokens scanned past and not deleted in their order, then the tokens which
\* were queued behind them; every token inserted has the line and the
\* location of the first token behind the insertion; and no token deleted
\* comes back: the tokens shifted and not inserted, deleted and queued are
\* at all times the tokens of the input in their order
C23_QueueAfterRepair ==
    /\ [][RepairReturns =>
            QueueRepaired(NextToken(tables).tknqueue, tables'.tknqueue,
                          tables'.repairs[Len(tables'.repairs)])]_vars
    /\ [](drv_pc \in {"parse", "done", "exit", "hang"} =>
            \A k \in DOMAIN TakenFrom(tables, 1, 0) :
                TakenFrom(tables, 1, 0)[k]
                   = IF k <= Len(TokensFrom(infile.text, 1))
                     THEN TokensFrom(infile.text, 1)[k] ELSE ptables.tnumber)

\* a repair has scanned past a token behind its choice, put it back and
\* inserted a token in front of it, with a token queued behind
C23_Witness ==
    /\ drv_pc = "parse"
    /\ parse.action = ERROR
    /\ Len(tables.repairs) >= 1
    /\ tables.repairs[Len(tables.repairs)].inserted # <<>>
    /\ Len(tables.tknqueue) >= Len(tables.repairs[Len(tables.repairs)].inserted) + 2
    /\ Len(tables.tried[Len(tables.tried)])
          > Len(tables.repairs[Len(tables.repairs)].deleted) + 1
(***************************************************************************)
(* C24: the continuation built from the generated error repair values      *)
(***************************************************************************)
\* the longest parse stack, and the most steps of a continuation, examined
MaxStack == 4
MaxContinue == 24

\* tables->rhslength[prod] as write_tables writes it: the symbols of the
\* right hand side which are not epsilon terminals
RhsLength(prods, prod) ==
    Cardinality({ j \in 0..(prods[prod].length - 1) : NotEpsilon(prods[prod].rhside[j]) })

\* the parse stacks of at most n states: state 1, followed by states each
\* entered by the shift entry of the state below it
RECURSIVE Stacks(_, _)
Stacks(rows, n) ==
    IF n <= 1 THEN { <<1>> }
    ELSE LET shorter == Stacks(rows, n - 1) IN
         shorter \cup
         { Append(p[1], rows[Top(p[1])][p[2]] - SHIFT_OFFSET) :
             p \in { p \in shorter \X (1..(grammar.termcount + grammar.nontermcount)) :
                              rows[Top(p[1])][p[2]] > SHIFT_OFFSET } }

\* the do loop of the REDUCE case of build_continuation on the local stack
RECURSIVE ContinueReduce(_, _, _, _)
ContinueReduce(rows, prods, lcl, entry) ==
    IF RhsLength(prods, entry) >= Len(lcl) THEN [action |-> ERROR, lcl |-> lcl]
    ELSE LET popped == SubSeq(lcl, 1, Len(lcl) - RhsLength(prods, entry))
             code == rows[Top(popped)][prods[entry].lhside]
         IN IF code = ACCEPT_OFFSET THEN [action |-> ACCEPT, lcl |-> Append(popped, 0)]
            ELSE IF code > SHIFT_OFFSET
                 THEN [action |-> SHIFT, lcl |-> Append(popped, code - SHIFT_OFFSET)]
            ELSE IF code > 0 THEN ContinueReduce(rows, prods, Append(popped, code), code)
            ELSE [action |-> ERROR, lcl |-> popped]

\* one pass of the do loop of build_continuation with the error repair
\* value of the state on top of the local stack
ContinueStep(rows, errtok, prods, lcl) ==
    LET value == errtok[Top(lcl)]
        code == IF value > 0 THEN rows[Top(lcl)][value] ELSE 0
    IN IF value < 0 THEN ContinueReduce(rows, prods, lcl, -value)
       ELSE IF value = 0 THEN [action |-> ERROR, lcl |-> lcl]
       ELSE IF code > SHIFT_OFFSET
            THEN [action |-> SHIFT, lcl |-> Append(lcl, code - SHIFT_OFFSET)]
       ELSE IF code > 0 THEN ContinueReduce(rows, prods, Append(lcl, code), code)
       ELSE IF code < 0 /\ code # ACCEPT_OFFSET THEN ContinueReduce(rows, prods, lcl, -code)
       ELSE [action |-> ERROR, lcl |-> lcl]

\* the passes build_continuation makes from the stack lcl until it reaches
\* accept: their number, the terminals it shifts and the states whose error
\* repair value it uses; accepted is false when it has not reached accept
\* within limit passes
RECURSIVE Continue(_, _, _, _, _, _)
Continue(rows, errtok, prods, lcl, limit, acc) ==
    IF limit = 0 THEN [acc EXCEPT !.accepted = FALSE]
    ELSE LET value == errtok[Top(lcl)]
             step == ContinueStep(rows, errtok, prods, lcl)
             next == [accepted |-> step.action = ACCEPT,
                      passes |-> acc.passes + 1,
                      string |-> IF value > 0 THEN Append(acc.string, value) ELSE acc.string,
                      states |-> acc.states \cup {Top(lcl)}]
         IN IF step.action = ACCEPT THEN next
            ELSE IF step.action = ERROR THEN [next EXCEPT !.accepted = FALSE, !.passes = limit]
            ELSE Continue(rows, errtok, prods, step.lcl, limit - 1, next)

ContinuationOf(lcl) ==
    Continue(lrstates, errortoken, productions, lcl, MaxContinue,
             [accepted |-> FALSE, passes |-> 0, string |-> <<>>, states |-> {}])

\* the tables of a generation with error repair which has built its table
\* and the error repair values
Repairable ==
    /\ gen_pc \in {"write", "exit"}
    /\ ERRORREPAIR \in options
    /\ process
    /\ Len(lrstates) = Len(collection)
    /\ errortoken # <<>>

\* C24: from every parse stack of the generated automaton, the continuation
\* built with the generated error repair values reaches accept within
\* MaxContinue passes, provided every state has a nonzero error repair
\* value.
C24_ContinuationEnds ==
    (Repairable /\ \A s \in 1..Len(collection) : errortoken[s] # 0)
        => \A lcl \in Stacks(lrstates, MaxStack) : ContinuationOf(lcl).accepted

\* C24 witness: a continuation from a stack of several states which takes
\* several passes, shifts more than one terminal and reduces
C24_Witness ==
    /\ Repairable
    /\ \A s \in 1..Len(collection) : errortoken[s] # 0
    /\ \E lcl \in Stacks(lrstates, MaxStack) :
          LET c == ContinuationOf(lcl) IN
          /\ Len(lcl) >= 3
          /\ c.accepted
          /\ c.passes >= 4
          /\ Len(c.string) >= 2
          /\ \E s \in c.states : errortoken[s] < 0
(***************************************************************************)
(* C26: reduce-reduce conflicts at the end of a generation                 *)
(***************************************************************************)
\* the items of state s whose dot is at the end of their production
ReduceItems(s) ==
    { i \in DOMAIN collection[s].itemset :
        collection[s].itemset[i].dot >= productions[collection[s].itemset[i].prod].length }

\* the generation has built the whole table and process is still true
TableKept ==
    /\ gen_pc \in {"write", "exit"}
    /\ collection # <<>>
    /\ Len(lrstates) = Len(collection)
    /\ process

\* C26: when the generation ends with process still true, the lookahead
\* sets of distinct reduce items of every state are pairwise disjoint.
C26_NoReduceReduce ==
    TableKept =>
        \A s \in 1..Len(collection) : \A i, j \in ReduceItems(s) :
            i # j => collection[s].itemset[i].lookahead
                        \cap collection[s].itemset[j].lookahead = {}

\* the part of C26 the code keeps: two reduce items of a state share a
\* lookahead symbol only where the state also shifts on that symbol, the
\* case set_action reports as a shift-reduce conflict
C26_DisjointWhereNoShift ==
    TableKept =>
        \A s \in 1..Len(collection) : \A i, j \in ReduceItems(s) :
            i # j => \A t \in collection[s].itemset[i].lookahead
                                \cap collection[s].itemset[j].lookahead :
                        ShiftItems(productions, collection[s].itemset, t) # {}

\* C26 restricted to the grammars whose conflicting terminals have declared
\* precedences and an associativity of LEFT or RIGHT
C26_NoReduceReduceDeclared ==
    (/\ TableKept
     /\ grammar.declared = {1, 2}
     /\ \A t \in {1, 2} : grammar.assoc[t] \in {LEFT, RIGHT})
        => \A s \in 1..Len(collection) : \A i, j \in ReduceItems(s) :
              i # j => collection[s].itemset[i].lookahead
                          \cap collection[s].itemset[j].lookahead = {}
(***************************************************************************)
(* C27: the cycle of table build, state splitting and propagation          *)
(***************************************************************************)
\* the most restarts of the table a generation of the model makes
MaxRestarts == 2

\* build_table is about to build the row of a state in which set_action
\* finds a reduce-reduce conflict
ConflictAt(i) ==
    /\ gen_pc = "table"
    /\ i = gen_i
    /\ i < COLLCOUNT(collection)
    /\ REDUCE_REDUCE_ERROR \in
          ReduceActions(productions, collection[i].itemset, 0,
             [row |-> ShiftActions(productions, collection[i].itemset, 0,
                         [t \in 0..(grammar.termcount + grammar.nontermcount) |-> 0]),
              result |-> {NO_ERROR}]).result

\* the do loop of split_states on the conflict of state i
TraceOf(i) ==
    TraceLanes(collection, << ConflictLanes(productions, collection[i].itemset, i) >>)

\* the times build_table has been started again after a split
Restarts ==
    Cardinality({ n \in 1..Len(stderr) :
                    stderr[n].msg = "Reduce-Reduce conflict has been resolved" })

\* the position of build_table in its two loops: the states of the
\* collection, then the state whose row is built next
TableMeasure(len, i) == len * (len + 1) + i

\* C27: the do loop of split_states makes at most one pass more than there
\* are states; a step of build_table whose split fails clears process,
\* leaves the collection and goes on to the next state; a step whose split
\* succeeds adds states and starts the table again; every step of
\* build_table raises the measure of its position, so that build_table
\* ends; and no generation starts the table again more than MaxRestarts
\* times.
C27_SplitCycleBounded ==
    /\ [](\A i \in 1..Len(collection) :
            (ConflictAt(i) /\ SPLITSTATES \in options)
               => TraceOf(i).passes <= COLLCOUNT(collection))
    /\ [][\A i \in 1..Len(collection) :
            (ConflictAt(i) /\ SPLITSTATES \in options /\ TraceOf(i).failure)
               => /\ process' = FALSE
                  /\ collection' = collection
                  /\ gen_i' = gen_i + 1]_vars
    /\ [][\A i \in 1..Len(collection) :
            (ConflictAt(i) /\ SPLITSTATES \in options /\ ~TraceOf(i).failure)
               => /\ Len(collection') > Len(collection)
                  /\ gen_i' = 1
                  /\ gen_pc' = "table"]_vars
    /\ [][(gen_pc = "table" /\ gen_pc' = "table")
            => TableMeasure(Len(collection'), gen_i')
                  > TableMeasure(Len(collection), gen_i)]_vars
    /\ [](gen_pc = "table" => gen_i <= COLLCOUNT(collection))
    /\ [](Restarts <= MaxRestarts)

\* C27 witness: a generation which has started its table again twice after
\* a split and has failed to separate the lookaheads of another state
C27_Witness ==
    /\ gen_pc = "exit"
    /\ Restarts >= 2
    /\ process = FALSE
    /\ \E n \in 1..Len(stderr) :
          stderr[n].msg = "Reduce-Reduce conflict cannot be resolved"
(***************************************************************************)
(* C28: the passes of lookahead propagation                                *)
(***************************************************************************)
\* the passes the do loop of propagate_lookahead makes from coll, the last
\* one, which changes nothing, included; limit + 1 when it makes more than
\* limit passes
RECURSIVE PropagatePasses(_, _)
PropagatePasses(coll, limit) ==
    IF limit = 0 THEN 1
    ELSE LET pass == PropagatePass(coll, 1, 0, 0, FALSE) IN
         IF pass.changed THEN 1 + PropagatePasses(pass.coll, limit - 1) ELSE 1

\* the items of the grammar which occur in the collection
ItemsOf(coll) ==
    { <<coll[p[1]].itemset[p[2]].prod, coll[p[1]].itemset[p[2]].dot>> :
         p \in { p \in (1..Len(coll)) \X (0..Len(productions) * 4) :
                          p[2] \in DOMAIN coll[p[1]].itemset } }

\* |items| x |states| of the collection
PassBound(coll) == Cardinality(ItemsOf(coll)) * Len(coll)

\* C28: whenever lookahead has been propagated over the collection, the do
\* loop of propagate_lookahead has made at most |items| x |states| passes
\* and has ended with a pass which changes no lookahead set.
C28_PropagationPasses ==
    Propagated =>
        /\ PropagatePasses(LookaheadStart(collection), PassBound(collection))
              <= PassBound(collection)
        /\ collection = propagate_lookahead(collection)
        /\ ~PropagatePass(collection, 1, 0, 0, FALSE).changed

\* C28 witness: a propagation which needs four passes
C28_Witness ==
    /\ Propagated
    /\ PropagatePasses(LookaheadStart(collection), PassBound(collection)) >= 4
(***************************************************************************)
(* C29: the kernels of the states of the collection                        *)
(***************************************************************************)
\* the kernel items of state s in their order, as (production, dot) pairs
KernelSeq(s) ==
    [j \in 1..collection[s].kernel |->
        <<collection[s].itemset[j - 1].prod, collection[s].itemset[j - 1].dot>>]

KernelSet(s) == { KernelSeq(s)[j] : j \in 1..collection[s].kernel }

\* the kernels of two states are equal: as sequences with ERRORREPAIR, as
\* sets without it
KernelsEqual(s, t) ==
    IF ERRORREPAIR \in options THEN KernelSeq(s) = KernelSeq(t)
    ELSE KernelSet(s) = KernelSet(t)

Accepting == drv_pc = "parse" /\ parse.action = ACCEPT

\* the messages written by the step, after those written before it
NewOutput(before, after) == SubSeq(after.stdout, Len(before.stdout) + 1, Len(after.stdout))

\* every message queued in t is among the messages out
AllWritten(t, out) ==
    \A k \in 1..Len(t.msgqueue) : \E j \in 1..Len(out) :
        /\ out[j].point = t.msgqueue[k].point
        /\ out[j].message = t.msgqueue[k].message

\* what the end of parse_input has done in a step from Accepting: the
\* queued reduces are performed, their queue is empty, the messages which
\* were queued and those the reduces recorded are written, the message
\* queue is empty and parse_input returns
Flushes ==
    /\ drv_pc' = "done"
    /\ tables'.redqueue = <<>>
    /\ Len(tables'.performed) >= Len(tables.performed)
    /\ tables'.performed =
          perform_reduces(tables, parse.where).performed
    /\ tables'.msgqueue = <<>>
    /\ AllWritten(tables, NewOutput(tables, tables'))
    /\ AllWritten(perform_reduces(tables, parse.where), NewOutput(tables, tables'))

\* C30: when the parser accepts, the reduce queue is drained, every message
\* in the message queue is written, and parse_input returns with both
\* queues empty.
C30_AcceptFlushes == [][Accepting => Flushes]_vars

\* what holds of it: the same, as long as the order of a buffer is never
\* read from memory which has been freed and changed
C30_FlushesWithoutStaleOrder == [][(Accepting /\ ~tables.garbage) => Flushes]_vars

\* ---------------------------------------------------------------------
\* the search loop of repair_error and the end of the input

\* the passes one search can make when every pass but the last scans a
\* token of the input or a token an earlier repair has inserted
MaxPasses == MaxInput + 2 * MaxRepairs + 1

\* the cost of the choice after pass k of a search: the cheaper candidate of
\* the last pass at which a candidate has been adopted, MAXCOST before
RECURSIVE BestAfter(_, _)
BestAfter(passes, k) ==
    IF k = 0 THEN MAXCOST
    ELSE IF passes[k].adopted
         THEN IF passes[k].insert.cost <= passes[k].prefix.cost
              THEN passes[k].insert.cost ELSE passes[k].prefix.cost
         ELSE BestAfter(passes, k - 1)

\* delete + cost < best, for a delete which is not negative
Below(delete, cost, best) == delete >= 0 /\ cost < best - delete

\* the passes of one search: they end, no pass scans the end of file, a
\* token is scanned only while delete + delcost is below the best cost, and
\* the best cost is at most MAXCOST
SearchStops(passes) ==
    /\ Len(passes) <= MaxPasses
    /\ \A k \in 1..Len(passes) : BestAfter(passes, k) <= MAXCOST
    /\ \A k \in 1..(Len(passes) - 1) :
          /\ passes[k].next # ptables.tnumber
          /\ Below(passes[k].delete, ptables.delcost[passes[k].next],
                   BestAfter(passes, k))

\* C25: the search loop of repair_error always terminates and never scans
\* past the end-of-file token: a token is scanned only while delete +
\* delcost(token) is strictly below the best cost so far, the best cost
\* never exceeds MAXCOST, and the delete cost of the end of file is MAXCOST
C25_SearchStopsAtEOF ==
    /\ ptables.delcost[ptables.tnumber] = MAXCOST
    /\ drv_pc # "init" =>
          \A r \in DOMAIN tables.tried : SearchStops(tables.tried[r])

\* the same holds of every run in which no sum of delete costs overflows
\* or the overflowed sum is not reduced modulo 2^32
C25_SearchStopsUnlessWrapped ==
    /\ ptables.delcost[ptables.tnumber] = MAXCOST
    /\ (drv_pc # "init" /\ ~tables.wraps) =>
          \A r \in DOMAIN tables.tried : SearchStops(tables.tried[r])

\* a search which has scanned two tokens and stopped at the end of file
C25_Reached ==
    /\ drv_pc # "init"
    /\ \E r \in DOMAIN tables.tried :
          /\ Len(tables.tried[r]) >= 3
          /\ tables.tried[r][Len(tables.tried[r])].next = ptables.tnumber
====
